---- MODULE Spec2Model ----
(***************************************************************************)
(* Omnicart backend: offer ranking, offer normalisation, offer aggregation *)
(* with fallback synthesis, and the writers of the offer store.            *)
(*                                                                         *)
(* Strings are TLA+ strings; substring search and case conversion are      *)
(* computed character by character.  A missing id (null) is 0: row ids are *)
(* positive.                                                               *)
(***************************************************************************)
EXTENDS Integers, Sequences, FiniteSets, TLC

VARIABLES
    rankIn,        \* the offers array handed to recommendedOfferIdForStrategy
    rankStrategy,  \* the strategy argument of that call
    rankOut,       \* its return value
    rankDone,      \* whether the call has been made
    normIn,        \* the offer row handed to normalizeOffer
    normOut,       \* the normalized offer it returns
    normDone,      \* whether the call has been made
    offers,        \* the Offer table, in insertion order; a row's id is its position
    watchlist,     \* the Watchlist table: at most one item per (userId, productId)
    notifications, \* the PendingNotification table, in insertion order
    calls,         \* the getRankedOffers calls in flight, by request slot
    ops,           \* the number of requests served or being served
    storageFaults, \* the number of storage calls that have failed
    liveEnabled,   \* config: web search offers, the proxy and its API key are all set
    changedItems,  \* the changedItems of the last runPriceTick
    syncResponse,  \* the last shared-watchlist sync: its request and its answer
    ticks,         \* the runPriceTick invocations that run step by step, by slot
    serpResponseCache, \* the Map of querySerpApi, in insertion order
    now,           \* Date.now(), in units of the clock
    inFlight,      \* the querySerpApi calls awaiting their fetch
    attempts,      \* metrics.attempts: the outbound calls issued
    lastRequest,   \* the last call of querySerpApi
    lastResponse,  \* what the last call to finish returned or threw
    completed      \* by cache key, the last call that completed successfully

varsRank == <<rankIn, rankStrategy, rankOut, rankDone>>
varsNorm == <<normIn, normOut, normDone>>
varsStore == <<offers, watchlist, notifications, calls, ops, storageFaults, liveEnabled>>

varsTick == <<changedItems, syncResponse, ticks>>
varsCache == <<serpResponseCache, now, inFlight, attempts, lastRequest, lastResponse,
               completed>>

vars == <<rankIn, rankStrategy, rankOut, rankDone, normIn, normOut, normDone,
          offers, watchlist, notifications, calls, ops, storageFaults, liveEnabled,
          changedItems, syncResponse, ticks, serpResponseCache, now, inFlight, attempts, lastRequest,
          lastResponse, completed>>

(***************************************************************************)
(* Bounds of the model                                                     *)
(***************************************************************************)
MaxLen == 3

\* requests served in one behaviour
MaxOps == 2

\* storage calls that fail in one behaviour
MaxStorageFaults == 1

\* price ticks in one behaviour of the tick specification
MaxTicks == 3

(***************************************************************************)
(* JavaScript values                                                       *)
(***************************************************************************)
NoId == 0
Undefined == "<undefined>"
NullOffer == [isNull |-> TRUE]

Truthy(s) == s # Undefined /\ s # ""

LowerChars == "abcdefghijklmnopqrstuvwxyz"
UpperChars == "ABCDEFGHIJKLMNOPQRSTUVWXYZ"

CharAt(s, i) == SubSeq(s, i, i)

UpperChar(c) ==
    IF \E i \in 1..26 : CharAt(LowerChars, i) = c
    THEN CharAt(UpperChars, CHOOSE i \in 1..26 : CharAt(LowerChars, i) = c)
    ELSE c

LowerChar(c) ==
    IF \E i \in 1..26 : CharAt(UpperChars, i) = c
    THEN CharAt(LowerChars, CHOOSE i \in 1..26 : CharAt(UpperChars, i) = c)
    ELSE c

RECURSIVE toUpperCase(_)
toUpperCase(s) ==
    IF Len(s) = 0 THEN ""
    ELSE UpperChar(CharAt(s, 1)) \o toUpperCase(SubSeq(s, 2, Len(s)))

RECURSIVE toLowerCase(_)
toLowerCase(s) ==
    IF Len(s) = 0 THEN ""
    ELSE LowerChar(CharAt(s, 1)) \o toLowerCase(SubSeq(s, 2, Len(s)))

includes(s, m) ==
    \E i \in 1..(Len(s) - Len(m) + 1) : SubSeq(s, i, i + Len(m) - 1) = m

\* String.prototype.trim, for blanks
RECURSIVE trim(_)
trim(s) ==
    IF Len(s) = 0 THEN s
    ELSE IF CharAt(s, 1) = " " THEN trim(SubSeq(s, 2, Len(s)))
    ELSE IF CharAt(s, Len(s)) = " " THEN trim(SubSeq(s, 1, Len(s) - 1))
    ELSE s

Max(a, b) == IF a >= b THEN a ELSE b
Min(a, b) == IF a <= b THEN a ELSE b

(***************************************************************************)
(* Ranking policy: recommendedOfferIdForStrategy                           *)
(***************************************************************************)
Total(o) == o.priceCents + o.shippingCents

\* pref = String(strategy || 'BALANCED').toUpperCase()
StrategyPref(strategy) ==
    toUpperCase(IF Truthy(strategy) THEN strategy ELSE "BALANCED")

\* a comparator whose BALANCED branch orders by delivery time first
CompareOffersBalancedByEta(a, b, pref) ==
    IF pref = "BEST_PRICE"
    THEN IF Total(a) # Total(b) THEN Total(a) - Total(b) ELSE a.etaDays - b.etaDays
    ELSE IF a.etaDays # b.etaDays THEN a.etaDays - b.etaDays ELSE Total(a) - Total(b)

\* a comparator that leaves the shipping cost out of the price ordering
CompareOffersPriceOnly(a, b, pref) ==
    IF pref = "FASTEST_SHIPPING"
    THEN IF a.etaDays # b.etaDays THEN a.etaDays - b.etaDays ELSE Total(a) - Total(b)
    ELSE IF a.priceCents # b.priceCents THEN a.priceCents - b.priceCents
         ELSE a.etaDays - b.etaDays

\* a comparator without the tie-break of the FASTEST_SHIPPING branch
CompareOffersNoTieBreak(a, b, pref) ==
    IF pref = "FASTEST_SHIPPING"
    THEN a.etaDays - b.etaDays
    ELSE IF Total(a) # Total(b) THEN Total(a) - Total(b) ELSE a.etaDays - b.etaDays

\* the comparator passed to sort()
CompareOffers(a, b, pref) ==
    IF pref = "FASTEST_SHIPPING"
    THEN IF a.etaDays # b.etaDays THEN a.etaDays - b.etaDays ELSE Total(a) - Total(b)
    ELSE IF pref = "BEST_PRICE"
    THEN IF Total(a) # Total(b) THEN Total(a) - Total(b) ELSE a.etaDays - b.etaDays
    ELSE \* BALANCED
         IF Total(a) # Total(b) THEN Total(a) - Total(b) ELSE a.etaDays - b.etaDays

\* offers.filter((o) => o && o.inStock)
RECURSIVE FilterInStock(_)
FilterInStock(list) ==
    IF list = <<>> THEN <<>>
    ELSE LET o == Head(list)
             rest == FilterInStock(Tail(list))
         IN IF o # NullOffer /\ o.inStock THEN <<o>> \o rest ELSE rest

\* Array.prototype.sort is stable: x goes behind every element that does not
\* compare greater than it
InsertStable(sorted, x, pref) ==
    LET later == {i \in 1..Len(sorted) : CompareOffers(sorted[i], x, pref) > 0}
        pos == IF later = {} THEN Len(sorted) + 1
               ELSE CHOOSE i \in later : \A j \in later : i <= j
    IN SubSeq(sorted, 1, pos - 1) \o <<x>> \o SubSeq(sorted, pos, Len(sorted))

RECURSIVE SortOffers(_, _)
SortOffers(list, pref) ==
    IF list = <<>> THEN <<>>
    ELSE InsertStable(SortOffers(SubSeq(list, 1, Len(list) - 1), pref),
                      list[Len(list)], pref)

\* the same function handed every offer, in stock or not
recommendedOfferIdUnfiltered(offerList, strategy) ==
    LET list == SelectSeq(offerList, LAMBDA o : o # NullOffer)
    IN IF Len(list) = 0 THEN NoId
       ELSE SortOffers(list, StrategyPref(strategy))[1].id

recommendedOfferIdForStrategy(offerList, strategy) ==
    LET list == FilterInStock(offerList)
    IN IF Len(list) = 0 THEN NoId
       ELSE SortOffers(list, StrategyPref(strategy))[1].id

(***************************************************************************)
(* Offer normaliser: normalizeOffer                                        *)
(***************************************************************************)
\* a search-URL test that does not know the '/search' path
isLikelySearchUrlNoSearchPath(url) ==
    LET u == toLowerCase(url)
    IN \/ includes(u, "/s?")
       \/ includes(u, "?q=")
       \/ includes(u, "&q=")
       \/ includes(u, "_nkw=")

isLikelySearchUrl(url) ==
    LET u == toLowerCase(url)
    IN \/ includes(u, "/s?")
       \/ includes(u, "/search")
       \/ includes(u, "?q=")
       \/ includes(u, "&q=")
       \/ includes(u, "_nkw=")

\* a listing test that does not know the eBay item path
isExactListingUrlNoItm(url) ==
    LET u == toLowerCase(url)
    IN \/ includes(u, "/dp/")
       \/ includes(u, "/gp/product/")
       \/ includes(u, "walmart.com/ip/")
       \/ includes(u, "target.com/p/")
       \/ includes(u, "bestbuy.com/site/")

isExactListingUrl(url) ==
    LET u == toLowerCase(url)
    IN \/ includes(u, "/dp/")
       \/ includes(u, "/gp/product/")
       \/ includes(u, "/itm/")
       \/ includes(u, "walmart.com/ip/")
       \/ includes(u, "target.com/p/")
       \/ includes(u, "bestbuy.com/site/")

\* the wire shape of a stored offer row; vendorName and title are display
\* strings copied through and are left out of the rows of this model
normalizeOffer(dbOffer) ==
    LET productUrl == trim(dbOffer.productUrl)
        listingVerified == isExactListingUrl(productUrl) /\ ~isLikelySearchUrl(productUrl)
        listingType == IF listingVerified THEN "EXACT"
                       ELSE IF productUrl # "" THEN "ESTIMATED" ELSE "ESTIMATED"
    IN [id |-> dbOffer.id,
        vendorId |-> dbOffer.vendorId,
        productId |-> dbOffer.productId,
        priceCents |-> dbOffer.priceCents,
        shippingCents |-> dbOffer.shippingCents,
        etaDays |-> dbOffer.etaDays,
        inStock |-> dbOffer.inStock,
        productUrl |-> productUrl,
        listingVerified |-> listingVerified,
        listingType |-> listingType]

(***************************************************************************)
(* URLs                                                                    *)
(***************************************************************************)
\* encodeURIComponent: letters, digits and - _ . ! ~ * ' ( ) stay, the other
\* characters of the product names used here are percent-encoded
EncodeChar(c) ==
    CASE c = " " -> "%20"
      [] c = "/" -> "%2F"
      [] c = "?" -> "%3F"
      [] c = "&" -> "%26"
      [] c = "=" -> "%3D"
      [] OTHER -> c

RECURSIVE encodeURIComponent(_)
encodeURIComponent(s) ==
    IF Len(s) = 0 THEN ""
    ELSE EncodeChar(CharAt(s, 1)) \o encodeURIComponent(SubSeq(s, 2, Len(s)))

\* String(value || '').replace(/\s+/g, ' ').trim(), for blanks
RECURSIVE CollapseBlanks(_)
CollapseBlanks(s) ==
    IF Len(s) < 2 THEN s
    ELSE IF CharAt(s, 1) = " " /\ CharAt(s, 2) = " "
         THEN CollapseBlanks(SubSeq(s, 2, Len(s)))
         ELSE CharAt(s, 1) \o CollapseBlanks(SubSeq(s, 2, Len(s)))

normalizeWhitespace(s) == trim(CollapseBlanks(s))

\* the first position of m in s, 0 when s does not contain m
IndexOf(s, m) ==
    LET hits == {i \in 1..(Len(s) - Len(m) + 1) : SubSeq(s, i, i + Len(m) - 1) = m}
    IN IF hits = {} THEN 0 ELSE CHOOSE i \in hits : \A j \in hits : i <= j

IsDigit(c) == \E i \in 1..10 : CharAt("0123456789", i) = c
IsAlnum(c) ==
    \/ IsDigit(c)
    \/ \E i \in 1..26 : CharAt(LowerChars, i) = c \/ CharAt(UpperChars, i) = c

\* /\/(?:dp|gp\/product)\/([A-Z0-9]{10})\b/i : the ten characters behind the
\* first /dp/ or /gp/product/ that is followed by ten letters or digits and a
\* word boundary, upper-cased; "" when there is none
AsinAt(u, start) ==
    /\ start + 9 <= Len(u)
    /\ \A k \in start..(start + 9) : IsAlnum(CharAt(u, k))
    /\ (start + 10 <= Len(u) => ~(IsAlnum(CharAt(u, start + 10)) \/ CharAt(u, start + 10) = "_"))

extractAmazonAsinFromUrl(url) ==
    LET low == toLowerCase(url)
        starts == {i + 4 : i \in {j \in 1..(Len(low) - 3) : SubSeq(low, j, j + 3) = "/dp/"}}
                  \cup {i + 12 : i \in {j \in 1..(Len(low) - 11) :
                                          SubSeq(low, j, j + 11) = "/gp/product/"}}
        ok == {i \in starts : AsinAt(url, i)}
    IN IF ok = {} THEN ""
       ELSE LET first == CHOOSE i \in ok : \A j \in ok : i <= j
            IN toUpperCase(SubSeq(url, first, first + 9))

startsWith(s, m) == Len(s) >= Len(m) /\ SubSeq(s, 1, Len(m)) = m

\* the text behind "https://", up to the first "/" or "?"
UrlAuthority(url) ==
    LET rest == SubSeq(url, 9, Len(url))
        ends == {i \in 1..Len(rest) : CharAt(rest, i) = "/" \/ CharAt(rest, i) = "?"}
        stop == IF ends = {} THEN Len(rest) + 1
                ELSE CHOOSE i \in ends : \A j \in ends : i <= j
    IN SubSeq(rest, 1, stop - 1)

\* new URL(url).hostname, lower-cased, without a leading "www."; "" for a string
\* that is no https URL
hostnameFromUrl(url) ==
    IF ~startsWith(url, "https://") THEN ""
    ELSE LET h == toLowerCase(UrlAuthority(url))
         IN IF startsWith(h, "www.") THEN SubSeq(h, 5, Len(h)) ELSE h

endsWith(s, m) == Len(s) >= Len(m) /\ SubSeq(s, Len(s) - Len(m) + 1, Len(s)) = m

\* new URL(url).pathname of an https URL
UrlPathname(url) ==
    LET rest == SubSeq(url, 9 + Len(UrlAuthority(url)), Len(url))
        q == IndexOf(rest, "?")
        path == IF q = 0 THEN rest ELSE SubSeq(rest, 1, q - 1)
    IN IF path = "" THEN "/" ELSE path

\* u.search = '' : the URL without its query string
DropQuery(url) ==
    LET q == IndexOf(url, "?")
    IN IF q = 0 THEN url ELSE SubSeq(url, 1, q - 1)

\* the digits matched by /https?:\/\/(?:www\.)?ebay\.com\/itm\/(\d+)/i
EbayItemDigits(url) ==
    LET low == toLowerCase(url)
        a == IndexOf(low, "https://www.ebay.com/itm/")
        b == IndexOf(low, "https://ebay.com/itm/")
        from == IF a # 0 /\ (b = 0 \/ a < b) THEN a + 25
                ELSE IF b # 0 THEN b + 21 ELSE 0
        run == IF from = 0 THEN {}
               ELSE {n \in 1..(Len(url) - from + 1) :
                       \A k \in from..(from + n - 1) : IsDigit(CharAt(url, k))}
    IN IF run = {} THEN ""
       ELSE SubSeq(url, from, from + (CHOOSE n \in run : \A m \in run : m <= n) - 1)

\* canonicalizeVendorUrl, for the https URLs without fragment that the provider
\* returns here
canonicalizeVendorUrl(vendorId, url) ==
    LET raw == trim(url)
    IN IF raw = "" THEN ""
       ELSE IF vendorId = "web:amazon"
       THEN LET asin == extractAmazonAsinFromUrl(raw)
            IN IF asin # "" THEN "https://www.amazon.com/dp/" \o asin ELSE raw
       ELSE IF vendorId = "web:ebay"
       THEN LET id == EbayItemDigits(raw)
            IN IF id # "" THEN "https://www.ebay.com/itm/" \o id ELSE raw
       ELSE IF vendorId = "web:walmart"
       THEN IF includes(toLowerCase(UrlAuthority(raw)), "walmart.com")
               /\ includes(UrlPathname(raw), "/ip/")
            THEN DropQuery(raw) ELSE raw
       ELSE IF vendorId = "web:target"
       THEN IF includes(toLowerCase(UrlAuthority(raw)), "target.com")
               /\ includes(UrlPathname(raw), "/p/")
            THEN DropQuery(raw) ELSE raw
       ELSE IF vendorId = "web:bestbuy"
       THEN IF includes(toLowerCase(UrlAuthority(raw)), "bestbuy.com")
               /\ includes(UrlPathname(raw), "/site/")
            THEN DropQuery(raw) ELSE raw
       ELSE IF vendorId = "web:newegg"
       THEN IF includes(toLowerCase(UrlAuthority(raw)), "newegg.com")
               /\ includes(UrlPathname(raw), "/p/")
            THEN DropQuery(raw) ELSE raw
       ELSE raw

(***************************************************************************)
(* Products and the fallback vendors of refreshWebOffersForProduct         *)
(***************************************************************************)
\* the stored products; "p0" is an id no product has
Products == {"p1", "p2"}
MissingProduct == "p0"

ProductBrand(p) == IF p = "p1" THEN "Acme" ELSE "Unknown"
ProductTitle(p) == IF p = "p1" THEN "Widget Pro" ELSE "Q&A Set"

\* query = normalizeWhitespace(`${product.brand} ${product.title}`.trim())
ProductQuery(p) == normalizeWhitespace(trim(ProductBrand(p) \o " " \o ProductTitle(p)))

\* the fallbacks array; priceMult in hundredths
Fallbacks ==
    << [vendorId |-> "fallback:ebay", urlPrefix |-> "https://www.ebay.com/sch/i.html?_nkw=",
        priceMult |-> 92, etaDays |-> 6],
       [vendorId |-> "fallback:walmart", urlPrefix |-> "https://www.walmart.com/search?q=",
        priceMult |-> 98, etaDays |-> 4],
       [vendorId |-> "fallback:target", urlPrefix |-> "https://www.target.com/s?searchTerm=",
        priceMult |-> 103, etaDays |-> 5],
       [vendorId |-> "fallback:bestbuy",
        urlPrefix |-> "https://www.bestbuy.com/site/searchpage.jsp?st=",
        priceMult |-> 105, etaDays |-> 5] >>

\* a fallback link that points below the vendor's listing path
FallbackUrlListing(fb, query) ==
    "https://www.bestbuy.com/site/" \o encodeURIComponent(query)

FallbackUrl(fb, query) == fb.urlPrefix \o encodeURIComponent(query)

\* Math.round(base * mult) for a multiplier of hundredths
RoundMult(base, hundredths) == (base * hundredths + 50) \div 100

FallbackFloorCents == 99
DefaultBasePrice == 1999

\* a fallback price without the floor
FallbackPriceNoFloor(base, fb) == RoundMult(base, fb.priceMult)

\* priceCents = Math.max(99, Math.round(basePrice * fb.priceMult))
FallbackPrice(base, fb) == Max(FallbackFloorCents, RoundMult(base, fb.priceMult))

(***************************************************************************)
(* Search provider: querySerpApi and the functions that read its payload.  *)
(* A search payload is the sequence of its result items; an item carries   *)
(* its link, its price in thousandths of a dollar (0: no price) and the    *)
(* number of days its delivery text names (-1: no such text).  A missing   *)
(* price (null) is 0 cents, a missing delivery estimate (null) 0 days.     *)
(***************************************************************************)
ProviderKinds == {"ok", "network_error", "timeout", "non_2xx", "unparseable", "empty"}

\* fetch rejects on a network error and on the abort of the timeout; a non-2xx
\* status is thrown
querySerpApiThrows(kind) == kind \in {"network_error", "timeout", "non_2xx"}

\* the payload returned otherwise: res.json().catch(() => ({})) turns an
\* unparseable body into {}
querySerpApiPayload(kind, body, nothing) == IF kind = "ok" THEN body ELSE nothing

NoDetail == [priceMills |-> 0, days |-> -1, title |-> ""]

RECURSIVE SerpCollect(_, _, _, _)
SerpCollect(items, hostFilter, limit, out) ==
    IF items = <<>> \/ Len(out) >= limit THEN out
    ELSE LET item == Head(items)
             link == normalizeWhitespace(item.link)
             keep == /\ link # ""
                     /\ startsWith(link, "http")
                     /\ (hostFilter # "" =>
                            includes(toLowerCase(UrlAuthority(link)), toLowerCase(hostFilter)))
                     /\ \A i \in DOMAIN out : out[i].link # link
         IN SerpCollect(Tail(items), hostFilter, limit,
                        IF keep THEN Append(out, [item EXCEPT !.link = link]) ELSE out)

normalizeSerpOfferResults(payload, hostFilter, limit) == SerpCollect(payload, hostFilter, limit, <<>>)

\* Math.round(n * 100) of a positive amount, null otherwise
toCents(mills) == IF mills <= 0 THEN 0 ELSE (mills + 5) \div 10

parsePriceCents(mills) == IF mills = 0 THEN 0 ELSE toCents(mills)

\* Math.max(1, Math.min(14, days)) of the days the text names
estimateEtaDaysFromText(days) == IF days < 0 THEN 0 ELSE Max(1, Min(14, days))

\* the sort keys of pickBestOffer: a.etaDays || 99, a.priceCents || 1e12
NoEtaKey == 99
NoPriceKey == 1000000000
EtaKey(o) == IF o.etaDays # 0 THEN o.etaDays ELSE NoEtaKey
PriceKey(o) == IF o.priceCents # 0 THEN o.priceCents ELSE NoPriceKey

PickCompare(a, b, pref) ==
    IF pref = "FASTEST_SHIPPING" THEN EtaKey(a) - EtaKey(b)
    ELSE IF pref = "BEST_PRICE" THEN PriceKey(a) - PriceKey(b)
    ELSE IF PriceKey(a) + a.shippingCents # PriceKey(b) + b.shippingCents
         THEN (PriceKey(a) + a.shippingCents) - (PriceKey(b) + b.shippingCents)
         ELSE EtaKey(a) - EtaKey(b)

\* list.sort(cmp)[0] of a stable sort: the first offer no other one precedes
pickBestOffer(offerList, strategy) ==
    IF offerList = <<>> THEN NullOffer
    ELSE LET pref == StrategyPref(strategy)
             least == {i \in 1..Len(offerList) :
                         \A j \in 1..Len(offerList) : PickCompare(offerList[j], offerList[i], pref) >= 0}
         IN offerList[CHOOSE i \in least : \A j \in least : i <= j]

normalizeOfferBase(vendorId, title, productUrl, priceCents, etaDays, asin) ==
    [vendorId |-> vendorId,
     title |-> normalizeWhitespace(title),
     priceCents |-> priceCents,
     shippingCents |-> 0,
     etaDays |-> IF etaDays # 0 THEN etaDays ELSE 5,
     inStock |-> TRUE,
     productUrl |-> trim(productUrl),
     asin |-> asin]

\* the provider's own listing test, used to filter shopping results
providerIsExactListingUrl(url) ==
    LET u == toLowerCase(url)
    IN /\ startsWith(u, "http")
       /\ ~(\/ includes(u, "/s?") \/ includes(u, "/search") \/ includes(u, "?q=")
            \/ includes(u, "&q=") \/ includes(u, "_nkw="))
       /\ \/ includes(u, "/dp/")
          \/ includes(u, "/gp/product/")
          \/ includes(u, "/itm/")
          \/ includes(u, "walmart.com/ip/")
          \/ includes(u, "target.com/p/")
          \/ includes(u, "bestbuy.com/site/")
          \/ includes(u, "newegg.com/p/")
          \/ Len(UrlPathname(u)) >= 2

AmazonSearchLimit == 8
ShoppingSearchLimit == 12

RECURSIVE AmazonCandidates(_)
AmazonCandidates(serp) ==
    IF serp = <<>> THEN <<>>
    ELSE LET r == Head(serp)
             asin == extractAmazonAsinFromUrl(r.link)
             found == estimateEtaDaysFromText(r.days)
             eta == IF found # 0 THEN found ELSE 4
         IN IF asin = "" THEN AmazonCandidates(Tail(serp))
            ELSE <<normalizeOfferBase("web:amazon", r.title,
                                      canonicalizeVendorUrl("web:amazon", r.link),
                                      parsePriceCents(r.priceMills), eta, asin)>>
                 \o AmazonCandidates(Tail(serp))

\* fetchAmazonOffer up to its hydration call: the seed offer, or null
AmazonBestSeed(payload, strategy) ==
    pickBestOffer(AmazonCandidates(
                      normalizeSerpOfferResults(payload, "amazon.com", AmazonSearchLimit)),
                  strategy)

\* fetchAmazonProductViaSerpApi: the link is the canonical URL of the ASIN
fetchAmazonProductViaSerpApi(asin, payload) ==
    [link |-> "https://www.amazon.com/dp/" \o asin,
     title |-> normalizeWhitespace(payload.title),
     priceMills |-> payload.priceMills,
     days |-> payload.days]

\* a hydration that keeps the seed's price whatever the lookup supplies
HydratedAmazonOfferSeedPrice(bestSeed, detail) ==
    [bestSeed EXCEPT !.title = IF detail.title # "" THEN detail.title ELSE @,
                     !.productUrl = canonicalizeVendorUrl("web:amazon", detail.link)]

\* fetchAmazonOffer after a hydration call that returned
HydratedAmazonOffer(bestSeed, detail) ==
    LET extracted == IF detail.priceMills > 0 THEN toCents(detail.priceMills) ELSE 0
        priceCents == IF extracted # 0 THEN extracted
                      ELSE IF parsePriceCents(detail.priceMills) # 0
                           THEN parsePriceCents(detail.priceMills)
                           ELSE bestSeed.priceCents
        found == estimateEtaDaysFromText(detail.days)
        eta == IF found # 0 THEN found
               ELSE IF bestSeed.etaDays # 0 THEN bestSeed.etaDays ELSE 4
        url == trim(IF detail.link # "" THEN detail.link ELSE bestSeed.productUrl)
    IN [bestSeed EXCEPT
           !.title = IF detail.title # "" THEN detail.title ELSE @,
           !.priceCents = priceCents,
           !.etaDays = eta,
           !.productUrl = canonicalizeVendorUrl("web:amazon",
                                                IF url # "" THEN url ELSE bestSeed.productUrl)]

ShoppingVendorOf(host, link) ==
    IF endsWith(host, "ebay.com") THEN IF includes(link, "/itm/") THEN "web:ebay" ELSE ""
    ELSE IF endsWith(host, "walmart.com") THEN IF includes(link, "/ip/") THEN "web:walmart" ELSE ""
    ELSE IF endsWith(host, "target.com") THEN IF includes(link, "/p/") THEN "web:target" ELSE ""
    ELSE IF endsWith(host, "bestbuy.com") THEN IF includes(link, "/site/") THEN "web:bestbuy" ELSE ""
    ELSE IF endsWith(host, "newegg.com") THEN IF includes(link, "/p/") THEN "web:newegg" ELSE ""
    ELSE ""

RECURSIVE ShoppingCandidates(_)
ShoppingCandidates(serp) ==
    IF serp = <<>> THEN <<>>
    ELSE LET r == Head(serp)
             link == trim(r.link)
             host == hostnameFromUrl(link)
             vendorId == IF ~providerIsExactListingUrl(link) \/ host = ""
                            \/ includes(host, "amazon.")
                         THEN ""
                         ELSE ShoppingVendorOf(host, link)
             found == estimateEtaDaysFromText(r.days)
             eta == IF found # 0 THEN found ELSE 5
             c == normalizeOfferBase(vendorId, r.title,
                                     canonicalizeVendorUrl(vendorId, link),
                                     parsePriceCents(r.priceMills), eta, "")
         IN IF vendorId = "" \/ c.priceCents <= 0 THEN ShoppingCandidates(Tail(serp))
            ELSE <<c>> \o ShoppingCandidates(Tail(serp))

\* candidates.slice().sort((a, b) => (a.priceCents || 1e12) - (b.priceCents || 1e12))
InsertByPrice(sorted, x) ==
    LET later == {i \in 1..Len(sorted) : PriceKey(sorted[i]) - PriceKey(x) > 0}
        pos == IF later = {} THEN Len(sorted) + 1
               ELSE CHOOSE i \in later : \A j \in later : i <= j
    IN SubSeq(sorted, 1, pos - 1) \o <<x>> \o SubSeq(sorted, pos, Len(sorted))

RECURSIVE SortByPrice(_)
SortByPrice(list) ==
    IF list = <<>> THEN <<>>
    ELSE InsertByPrice(SortByPrice(SubSeq(list, 1, Len(list) - 1)), list[Len(list)])

\* the fill loop: distinct vendors, until two offers are out (out holds at most
\* one offer when the loop starts, so the test after a push is the test before
\* the next one)
RECURSIVE FillVendors(_, _)
FillVendors(sorted, out) ==
    IF sorted = <<>> \/ Len(out) >= 2 THEN out
    ELSE LET c == Head(sorted)
         IN IF \E i \in DOMAIN out : out[i].vendorId = c.vendorId
            THEN FillVendors(Tail(sorted), out)
            ELSE FillVendors(Tail(sorted), Append(out, c))

fetchShoppingVendors(payload, strategy) ==
    LET candidates == ShoppingCandidates(
                          normalizeSerpOfferResults(payload, "", ShoppingSearchLimit))
        ebay == pickBestOffer(SelectSeq(candidates, LAMBDA c : c.vendorId = "web:ebay"),
                              strategy)
        out == IF ebay # NullOffer THEN <<ebay>> ELSE <<>>
    IN FillVendors(SortByPrice(candidates), out)

\* out.filter(...) of fetchTopOffers: the first offer of each vendorId
RECURSIVE UniqueVendorIds(_, _)
UniqueVendorIds(out, seen) ==
    IF out = <<>> THEN <<>>
    ELSE LET o == Head(out)
         IN IF o.vendorId = "" \/ o.vendorId \in seen
            THEN UniqueVendorIds(Tail(out), seen)
            ELSE <<o>> \o UniqueVendorIds(Tail(out), seen \cup {o.vendorId})

\* an aggregation in which one rejected adapter leaves no candidate at all
fetchTopOffersAll(amazon, amazonValue, shopping, shoppingValue) ==
    IF amazon = "rejected" \/ shopping = "rejected" THEN <<>>
    ELSE UniqueVendorIds((IF amazonValue # NullOffer THEN <<amazonValue>> ELSE <<>>)
                            \o shoppingValue, {})

\* what fetchTopOffers returns once both adapters have settled
fetchTopOffers(amazon, amazonValue, shopping, shoppingValue) ==
    LET fromAmazon == IF amazon = "fulfilled" /\ amazonValue # NullOffer
                      THEN <<amazonValue>> ELSE <<>>
        fromShopping == IF shopping = "fulfilled" THEN shoppingValue ELSE <<>>
    IN UniqueVendorIds(fromAmazon \o fromShopping, {})

(***************************************************************************)
(* The provider's answers used here                                        *)
(***************************************************************************)
Item(link, priceMills, days) ==
    [link |-> link, priceMills |-> priceMills, days |-> days, title |-> " Widget  listing"]

\* two listings, the cheaper one slower and the faster one without a price,
\* a search page and a repeated link
AmazonPayload ==
    << Item("https://www.amazon.com/Widget/dp/B000000001?ref=x", 24990, 5),
       Item("https://www.amazon.com/s?k=widget", 1000, 1),
       Item("https://www.amazon.com/gp/product/b000000003/ref", 0, 2),
       Item("https://www.amazon.com/gp/product/b000000003/ref", 100, 1) >>

\* a low price that rounds up to the cent and a delivery beyond two weeks
DetailPayloads == {[priceMills |-> 996, days |-> 30, title |-> "Acme  Widget Pro "]}

\* two eBay listings, the cheaper one slower, and a Walmart listing, among
\* results the adapter drops
ShoppingPayload ==
    << Item("https://www.amazon.com/dp/B000000001", 5000, 1),
       Item("https://www.ebay.com/sch/i.html?_nkw=widget", 5000, 1),
       Item("https://www.walmart.com/ip/Widget/55?athbdg=L1", 23500, -1),
       Item("https://www.ebay.com/itm/123?hash=1", 18000, 2),
       Item("https://www.ebay.com/itm/456", 17000, 9),
       Item("https://www.bestbuy.com/site/widget/1.p", 4, 2),
       Item("https://shop.example.com/widget", 900, 2) >>

(***************************************************************************)
(* The Offer table                                                         *)
(***************************************************************************)
\* the row with the unique key productId_vendorId, 0 when there is none
OfferIndex(store, productId, vendorId) ==
    LET hits == {i \in 1..Len(store) :
                    store[i].productId = productId /\ store[i].vendorId = vendorId}
    IN IF hits = {} THEN 0 ELSE CHOOSE i \in hits : \A j \in hits : i <= j

OfferRow(id, productId, vendorId, data) ==
    [id |-> id,
     productId |-> productId,
     vendorId |-> vendorId,
     priceCents |-> data.priceCents,
     shippingCents |-> data.shippingCents,
     etaDays |-> data.etaDays,
     inStock |-> data.inStock,
     productUrl |-> data.productUrl]

OfferData(priceCents, shippingCents, etaDays, productUrl) ==
    [priceCents |-> priceCents, shippingCents |-> shippingCents, etaDays |-> etaDays,
     inStock |-> TRUE, productUrl |-> productUrl]

\* an upsert that inserts a row whether or not the key is taken
OfferUpsertAlwaysInsert(store, productId, vendorId, data) ==
    Append(store, OfferRow(Len(store) + 1, productId, vendorId, data))

\* prisma.offer.upsert({where: {productId_vendorId}, update, create}): the update
\* object of every caller names neither productId nor vendorId
OfferUpsert(store, productId, vendorId, data) ==
    LET i == OfferIndex(store, productId, vendorId)
    IN IF i = 0
       THEN Append(store, OfferRow(Len(store) + 1, productId, vendorId, data))
       ELSE [store EXCEPT ![i] = OfferRow(store[i].id, store[i].productId,
                                          store[i].vendorId, data)]

\* prisma.offer.create is rejected when the unique key is taken
OfferCreateRejected(store, productId, vendorId) == OfferIndex(store, productId, vendorId) # 0

OfferCreate(store, productId, vendorId, data) ==
    Append(store, OfferRow(Len(store) + 1, productId, vendorId, data))

\* prisma.offer.findMany({where: {productId, inStock: true}})
OffersInStock(store, productId) ==
    SelectSeq(store, LAMBDA o : o.productId = productId /\ o.inStock)

(***************************************************************************)
(* A getRankedOffers call                                                  *)
(***************************************************************************)
Slots == {1}

NoWatch == [preferredOfferId |-> NoId, pctDropThreshold |-> 0, targetPriceCents |-> 0,
            shippingImprovementOn |-> FALSE]

\* pc: the await the call is at.  amazon, shopping: the states of the two adapter
\* promises.  existing, existingVendorIds, basePrice: the locals of
\* refreshWebOffersForProduct.  created: the fallback rows inserted so far.
\* outbound: the provider calls issued by fetchTopOffers.  lookup: what the
\* hydration call of fetchAmazonOffer gave, until fetchTopOffers returns.
IdleCall ==
    [pc |-> "idle", caller |-> "", productId |-> "", strategy |-> "", refreshLive |-> FALSE,
     watch |-> NoWatch,
     amazon |-> "none", amazonValue |-> NullOffer,
     shopping |-> "none", shoppingValue |-> <<>>,
     outbound |-> 0, lookup |-> [status |-> "none", detail |-> NoDetail],
     providerFailed |-> {}, storageFailed |-> FALSE,
     webOffers |-> <<>>, upsertIndex |-> 0,
     existingRead |-> FALSE, existing |-> <<>>, existingVendorIds |-> {}, basePrice |-> 0,
     fbIndex |-> 0, created |-> <<>>,
     outcome |-> "none", result |-> <<>>, recommendedOfferId |-> NoId]

\* the store variables of a specification that does not use them
StoreParked ==
    /\ offers = <<>>
    /\ watchlist = <<>>
    /\ notifications = <<>>
    /\ calls = [c \in Slots |-> IdleCall]
    /\ ops = 0
    /\ storageFaults = 0
    /\ liveEnabled = FALSE

\* the answer slot of a shared-watchlist sync before the first request
NoSyncResponse ==
    [items |-> <<>>, replace |-> FALSE, importedCount |-> 0, skippedCount |-> 0,
     removedCount |-> 0]

TickSlots == {1, 2}

\* pc: the await an invocation of runPriceTick is at.  source: its draws.  read:
\* the offers of its findMany, k: the next of them to update.  items: the
\* watchItems of its findMany, j: the next of them to evaluate.  changedItems,
\* notified: the two arrays it returns; an entry of notified also keeps the
\* baseline the item was evaluated against.  overlapped: whether another
\* invocation was running at some time while this one ran.
IdleTick ==
    [pc |-> "idle", source |-> <<>>, read |-> <<>>, k |-> 0, items |-> <<>>, j |-> 0,
     changedItems |-> <<>>, notified |-> <<>>, overlapped |-> FALSE]

\* no tick has run and no sync has been requested
TickParked ==
    /\ changedItems = <<>>
    /\ syncResponse = NoSyncResponse
    /\ ticks = [t \in TickSlots |-> IdleTick]

\* the provider cache of a specification that does not use it: an empty Map and
\* no call made
CacheParked ==
    /\ serpResponseCache = <<>>
    /\ now = 0
    /\ inFlight = {}
    /\ attempts = 0
    /\ lastRequest = [seq |-> 0]
    /\ lastResponse = [seq |-> 0, kind |-> "none"]
    /\ completed = {}

(***************************************************************************)
(* Specification of the ranking policy on its own: every list of offers    *)
(* up to MaxLen, every strategy value.                                     *)
(***************************************************************************)
RankPrices == {100, 200}
RankShippings == {0, 100}
RankEtas == {1, 2}

RankStrategies ==
    {Undefined, "", "BALANCED", "balanced", "BEST_PRICE", "Best_Price",
     "FASTEST_SHIPPING", "fastest_shipping", "cheapest"}

\* the element at position i: nothing, an offer in stock, or the cheapest and
\* fastest offer out of stock
RankOfferAt(i) ==
    {NullOffer} \cup
    [id : {i}, priceCents : RankPrices, shippingCents : RankShippings,
     etaDays : RankEtas, inStock : {TRUE}] \cup
    [id : {i}, priceCents : {100}, shippingCents : {0},
     etaDays : {1}, inStock : {FALSE}]

RECURSIVE RankListsOfLen(_)
RankListsOfLen(n) ==
    IF n = 0 THEN {<<>>}
    ELSE {Append(l, o) : l \in RankListsOfLen(n - 1), o \in RankOfferAt(n)}

RankLists == UNION {RankListsOfLen(n) : n \in 0..MaxLen}

\* the variables of the other specifications, at rest
RankParked == rankIn = <<>> /\ rankStrategy = Undefined /\ rankOut = NoId /\ rankDone = FALSE

NormRow(vendorId, url) ==
    [id |-> 1, productId |-> "p1", vendorId |-> vendorId, priceCents |-> 1000,
     shippingCents |-> 0, etaDays |-> 5, inStock |-> TRUE, productUrl |-> url]

NormParked ==
    /\ normIn = NormRow("web:amazon", "https://www.amazon.com/dp/B000000001")
    /\ normOut = normalizeOffer(normIn)
    /\ normDone = FALSE

RankInit ==
    /\ NormParked
    /\ StoreParked
    /\ TickParked
    /\ CacheParked
    /\ rankIn \in RankLists
    /\ rankStrategy = Undefined
    /\ rankOut = NoId
    /\ rankDone = FALSE

RankCall ==
    /\ ~rankDone
    /\ rankDone' = TRUE
    /\ \E s \in RankStrategies :
        /\ rankStrategy' = s
        /\ rankOut' = recommendedOfferIdForStrategy(rankIn, s)
    /\ UNCHANGED rankIn
    /\ UNCHANGED varsNorm
    /\ UNCHANGED <<varsStore, varsTick, varsCache>>

RankNext == RankCall

SpecRank == RankInit /\ [][RankNext]_vars

\* the offers of the input that take part in the ranking
RankInStock == {rankIn[i] : i \in {j \in 1..Len(rankIn) :
                                   rankIn[j] # NullOffer /\ rankIn[j].inStock}}

RankChosen == {o \in RankInStock : o.id = rankOut}

\* C1: with BEST_PRICE the result is the id of an in-stock offer of minimal
\* priceCents+shippingCents and, among the in-stock offers of that total, of
\* minimal etaDays; it is null exactly when no offer is in stock, and it is never
\* the id of an out-of-stock offer.
C1_BestPriceMinimalTotal ==
    (rankDone /\ rankStrategy = "BEST_PRICE") =>
        /\ (rankOut = NoId) <=> (RankInStock = {})
        /\ rankOut # NoId =>
            /\ RankChosen # {}
            /\ \A c \in RankChosen : \A o \in RankInStock :
                  /\ Total(c) <= Total(o)
                  /\ Total(o) = Total(c) => c.etaDays <= o.etaDays
        /\ \A i \in 1..Len(rankIn) :
              (rankIn[i] # NullOffer /\ ~rankIn[i].inStock) => rankOut # rankIn[i].id

\* a BEST_PRICE call on a list with an out-of-stock offer that is cheaper than
\* every in-stock one, and two in-stock offers of the same minimal total and
\* different etaDays, the slower one first
C1_Witness ==
    /\ rankDone /\ rankStrategy = "BEST_PRICE" /\ rankOut # NoId
    /\ \E i \in 1..Len(rankIn) : rankIn[i] # NullOffer /\ ~rankIn[i].inStock
            /\ \A o \in RankInStock : Total(rankIn[i]) < Total(o)
    /\ \E a, b \in RankInStock :
            /\ a.id < b.id /\ Total(a) = Total(b) /\ a.etaDays > b.etaDays
            /\ a.priceCents # b.priceCents
            /\ \A o \in RankInStock : Total(a) <= Total(o)
            /\ rankOut = b.id

\* the strategies that do not upper-case to FASTEST_SHIPPING
RankPriceStrategies ==
    {Undefined, "", "BALANCED", "balanced", "BEST_PRICE", "Best_Price", "cheapest"}

\* C2: every strategy value that does not upper-case to FASTEST_SHIPPING gives
\* the result of BEST_PRICE, and a FASTEST_SHIPPING in lower case gives the result
\* of FASTEST_SHIPPING.
C2_BalancedIsBestPrice ==
    rankDone =>
        /\ rankStrategy \in RankPriceStrategies =>
                rankOut = recommendedOfferIdForStrategy(rankIn, "BEST_PRICE")
        /\ rankStrategy = "fastest_shipping" =>
                rankOut = recommendedOfferIdForStrategy(rankIn, "FASTEST_SHIPPING")

\* a BALANCED call on a list where the cheapest and the fastest in-stock offer
\* differ
C2_Witness ==
    /\ rankDone /\ rankStrategy = "BALANCED" /\ rankOut # NoId
    /\ rankOut # recommendedOfferIdForStrategy(rankIn, "FASTEST_SHIPPING")
    /\ rankOut = recommendedOfferIdForStrategy(rankIn, "BEST_PRICE")

\* C3: with FASTEST_SHIPPING the result is the id of an in-stock offer of minimal
\* etaDays and, among the in-stock offers of that etaDays, of minimal
\* priceCents+shippingCents.
C3_FastestShipping ==
    (rankDone /\ rankStrategy = "FASTEST_SHIPPING" /\ RankInStock # {}) =>
        /\ RankChosen # {}
        /\ \A c \in RankChosen : \A o \in RankInStock :
              /\ c.etaDays <= o.etaDays
              /\ o.etaDays = c.etaDays => Total(c) <= Total(o)

\* a FASTEST_SHIPPING call on a list with two fastest in-stock offers, the dearer
\* one first, and a cheaper but slower third offer
C3_Witness ==
    /\ rankDone /\ rankStrategy = "FASTEST_SHIPPING"
    /\ \E a, b, c \in RankInStock :
            /\ a.id < b.id /\ a.etaDays = b.etaDays /\ Total(a) > Total(b)
            /\ c.etaDays > b.etaDays /\ Total(c) < Total(b)
            /\ \A o \in RankInStock : b.etaDays <= o.etaDays
            /\ rankOut = b.id

(***************************************************************************)
(* Specification of the normaliser on its own, over the rows the writers   *)
(* of the offer store can produce: the live adapters store canonical       *)
(* listing URLs, the fallback synthesis search URLs, and the extension     *)
(* webhook and the shared-watchlist sync whatever URL their caller sends.  *)
(***************************************************************************)
NormHosts ==
    {"https://www.amazon.com", "https://www.ebay.com", "https://www.walmart.com",
     "https://www.target.com", "https://www.bestbuy.com", "https://shop.example.com"}

NormPaths ==
    {"/dp/B000000001", "/gp/product/B000000001", "/itm/123", "/ip/55", "/p/widget",
     "/site/widget", "/s", "/search", "/Search/Widget", "/item/9", "/DP/B000000001"}

NormQueries == {"", "?k=widget", "?q=widget", "?ref=1&q=widget", "?_nkw=widget", "?ref=1"}

CallerUrls == {h \o pth \o q : h \in NormHosts, pth \in NormPaths, q \in NormQueries}

CallerVendorIds ==
    {"ext:extension:ebay", "ext:extension:amazon", "ext:extension:extension-deal",
     "shared:ebay-com"}

\* the queries of the products, and queries that name a listing path
FallbackQueries ==
    {ProductQuery(p) : p \in Products} \cup {"x/dp/B000000001", "bestbuy.com/site/ itm"}

NormInputs ==
    {NormRow("web:amazon", "https://www.amazon.com/dp/" \o a) :
        a \in {"B000000001", "SEARCHTERM"}}
    \cup {NormRow("web:ebay", "https://www.ebay.com/itm/123"),
          NormRow("web:walmart", "https://www.walmart.com/ip/Widget/55"),
          NormRow("web:target", "https://www.target.com/p/widget/-/A-1"),
          NormRow("web:bestbuy", "https://www.bestbuy.com/site/widget/1.p")}
    \cup {NormRow(Fallbacks[i].vendorId, FallbackUrl(Fallbacks[i], q)) :
            i \in 1..Len(Fallbacks), q \in FallbackQueries}
    \cup {NormRow(v, u) : v \in CallerVendorIds, u \in CallerUrls}

NormInit ==
    /\ RankParked
    /\ StoreParked
    /\ TickParked
    /\ CacheParked
    /\ normIn \in NormInputs
    /\ normOut = normalizeOffer(NormRow("web:amazon", "https://www.amazon.com/dp/B000000001"))
    /\ normDone = FALSE

NormCall ==
    /\ ~normDone
    /\ normDone' = TRUE
    /\ normOut' = normalizeOffer(normIn)
    /\ UNCHANGED normIn
    /\ UNCHANGED varsRank
    /\ UNCHANGED <<varsStore, varsTick, varsCache>>

NormNext == NormCall

SpecNorm == NormInit /\ [][NormNext]_vars

SearchMarkers == {"/s?", "/search", "?q=", "&q=", "_nkw="}

HasSearchMarker(url) == \E m \in SearchMarkers : includes(toLowerCase(url), m)

\* C7: no offer whose productUrl contains a search marker is returned with
\* listingVerified = TRUE or listingType = EXACT, whatever its vendor and whatever
\* product-detail markers the URL also contains; and listingType is EXACT exactly
\* when listingVerified is TRUE, ESTIMATED otherwise.
C7_SearchUrlNeverVerified ==
    normDone =>
        /\ HasSearchMarker(normOut.productUrl) =>
              (~normOut.listingVerified /\ normOut.listingType # "EXACT")
        /\ normOut.listingType = (IF normOut.listingVerified THEN "EXACT" ELSE "ESTIMATED")

\* a normalised offer whose URL carries a product-detail marker and a search
\* marker at once
C7_Witness ==
    /\ normDone
    /\ includes(toLowerCase(normOut.productUrl), "/dp/")
    /\ HasSearchMarker(normOut.productUrl)
    /\ normOut.vendorId = "web:amazon"
    /\ ~normOut.listingVerified
    /\ normOut.listingType = "ESTIMATED"

\* the vendor an offer's vendorId names, and that vendor's product-detail markers
VendorOfId(vendorId) ==
    CASE includes(vendorId, "amazon") -> "Amazon"
      [] includes(vendorId, "ebay") -> "eBay"
      [] includes(vendorId, "walmart") -> "Walmart"
      [] includes(vendorId, "target") -> "Target"
      [] includes(vendorId, "bestbuy") -> "Best Buy"
      [] OTHER -> "other"

OwnDetailMarkers(vendorId) ==
    CASE VendorOfId(vendorId) = "Amazon" -> {"/dp/", "/gp/product/"}
      [] VendorOfId(vendorId) = "eBay" -> {"/itm/"}
      [] VendorOfId(vendorId) = "Walmart" -> {"walmart.com/ip/"}
      [] VendorOfId(vendorId) = "Target" -> {"target.com/p/"}
      [] VendorOfId(vendorId) = "Best Buy" -> {"bestbuy.com/site/"}
      [] OTHER -> {}

AllDetailMarkers ==
    {"/dp/", "/gp/product/", "/itm/", "walmart.com/ip/", "target.com/p/", "bestbuy.com/site/"}

UserId == "u1"

Strategies == {"BALANCED", "FASTEST_SHIPPING"}

\* the alert rules of a request without any, resolved from the user's defaults,
\* and the rules of a request that names an offer, a threshold and a target
AlertRuleSets ==
    << [preferredOfferId |-> NoId, pctDropThreshold |-> 15, targetPriceCents |-> 0,
        shippingImprovementOn |-> FALSE],
       [preferredOfferId |-> 1, pctDropThreshold |-> 1, targetPriceCents |-> 2000,
        shippingImprovementOn |-> TRUE] >>

OfferRequest(productId, strategy) ==
    [caller |-> "GET /offers", productId |-> productId, strategy |-> strategy,
     refreshLive |-> TRUE, watch |-> NoWatch]

WatchRequest(productId, rules) ==
    [caller |-> "POST /watchlist", productId |-> productId, strategy |-> "BEST_PRICE",
     refreshLive |-> TRUE, watch |-> rules]

\* the requests of GET /offers and POST /watchlist, the callers of
\* getRankedOffers, served here
Requests ==
    {OfferRequest("p1", st) : st \in Strategies}
    \cup {OfferRequest(MissingProduct, "BALANCED")}
    \cup {WatchRequest("p1", AlertRuleSets[1]), WatchRequest("p2", AlertRuleSets[2])}

NoRequestInFlight == \A c \in Slots : calls[c].pc = "idle"

\* the outcomes of a storage call: it succeeds, or it fails while the behaviour
\* has failures left
StorageOutcomes ==
    IF storageFaults < MaxStorageFaults THEN {TRUE, FALSE} ELSE {TRUE}

Fault(call) == [call EXCEPT !.storageFailed = TRUE]

Counted(ok) == storageFaults' = IF ok THEN storageFaults ELSE storageFaults + 1

\* a provider left with nothing to catch its exceptions
CatcherNone(site) == "caller"

\* the innermost handler around each await: the try/catch of fetchAmazonOffer
\* around the hydration call, Promise.allSettled of fetchTopOffers around the two
\* adapters, Promise.allSettled of refreshWebOffersForProduct around the upserts,
\* the try/catch of getRankedOffers around the refresh; none around the last read
Catcher(site) ==
    CASE site = "hydration" -> "fetchAmazonOffer.catch"
      [] site \in {"amazon_search", "shopping"} -> "fetchTopOffers.allSettled"
      [] site = "upsert" -> "refresh.allSettled"
      [] site \in {"lookup", "existing", "create"} -> "getRankedOffers.catch"
      [] OTHER -> "caller"

\* an adapter that calls the provider twice for its detail
OutboundCallsRetry(site) == IF site = "hydration" THEN 2 ELSE 1

\* the provider calls behind one await of an adapter: searchOffersViaSerpApi and
\* fetchAmazonProductViaSerpApi each call querySerpApi once, which fetches once
OutboundCalls(site) == 1

SettledStates == {"rejected", "fulfilled"}

\* the next candidate to persist, or the read of the existing offers
NextUpsert(call) ==
    IF call.upsertIndex < Len(call.webOffers)
    THEN [call EXCEPT !.pc = "upsert", !.upsertIndex = @ + 1]
    ELSE [call EXCEPT !.pc = "existing"]

\* an exception thrown at a site, by where it is caught
Throw(call, site) ==
    IF Catcher(site) = "caller"
    THEN [call EXCEPT !.pc = "return", !.outcome = "error"]
    ELSE CASE site = "amazon_search" -> [call EXCEPT !.amazon = "rejected"]
           [] site = "hydration" -> [call EXCEPT !.amazon = "fulfilled"]
           [] site = "shopping" -> [call EXCEPT !.shopping = "rejected"]
           [] site = "upsert" -> NextUpsert(call)
           [] OTHER -> [call EXCEPT !.pc = "read"]

ProviderFailed(call, site, kind) ==
    IF kind = "ok" THEN call ELSE [call EXCEPT !.providerFailed = @ \cup {site}]

SearchAnswers(payloads) ==
    {[kind |-> k, body |-> <<>>] : k \in ProviderKinds \ {"ok"}}
    \cup {[kind |-> "ok", body |-> b] : b \in payloads}

DetailAnswers ==
    {[kind |-> k, body |-> NoDetail] : k \in ProviderKinds \ {"ok"}}
    \cup {[kind |-> "ok", body |-> b] : b \in DetailPayloads}

StoreInit ==
    /\ RankParked
    /\ NormParked
    /\ offers = <<>>
    /\ watchlist = <<>>
    /\ notifications = <<>>
    /\ calls = [c \in Slots |-> IdleCall]
    /\ ops = 0
    /\ storageFaults = 0
    /\ liveEnabled \in BOOLEAN
    /\ TickParked
    /\ CacheParked

\* a request reaches getRankedOffers
GetRankedOffersStart(c) ==
    /\ NoRequestInFlight
    /\ ops < MaxOps
    /\ \E req \in Requests :
          calls' = [calls EXCEPT ![c] =
                       [IdleCall EXCEPT !.pc = IF req.refreshLive THEN "lookup" ELSE "read",
                                        !.caller = req.caller,
                                        !.productId = req.productId,
                                        !.strategy = req.strategy,
                                        !.refreshLive = req.refreshLive,
                                        !.watch = req.watch]]
    /\ ops' = ops + 1
    /\ UNCHANGED <<offers, watchlist, notifications, storageFaults, liveEnabled>>
    /\ UNCHANGED <<varsRank, varsNorm, varsTick, varsCache>>

\* refreshWebOffersForProduct: prisma.product.findUnique and the query
RefreshLookup(c) ==
    LET call == calls[c]
    IN /\ call.pc = "lookup"
       /\ \E ok \in StorageOutcomes :
             /\ Counted(ok)
             /\ calls' = [calls EXCEPT ![c] =
                 IF ~ok THEN Throw(Fault(call), "lookup")
                 ELSE IF call.productId \notin Products THEN [call EXCEPT !.pc = "read"]
                 ELSE IF ProductQuery(call.productId) = "" THEN [call EXCEPT !.pc = "read"]
                 ELSE IF liveEnabled
                      THEN [call EXCEPT !.pc = "fetch", !.amazon = "searching",
                                        !.shopping = "waiting",
                                        !.outbound = OutboundCalls("amazon_search")
                                                     + OutboundCalls("shopping")]
                      ELSE [call EXCEPT !.pc = "existing"]]
       /\ UNCHANGED <<offers, watchlist, notifications, ops, liveEnabled>>
       /\ UNCHANGED <<varsRank, varsNorm, varsTick, varsCache>>

\* fetchAmazonOffer: the Amazon search call settles
AmazonSearchSettle(c) ==
    LET call == calls[c]
    IN /\ call.pc = "fetch"
       /\ call.amazon = "searching"
       /\ \E answer \in SearchAnswers({AmazonPayload}) :
             LET seen == ProviderFailed(call, "amazon_search", answer.kind)
                 bestSeed == AmazonBestSeed(
                                 querySerpApiPayload(answer.kind, answer.body, <<>>),
                                 call.strategy)
             IN calls' = [calls EXCEPT ![c] =
                    IF querySerpApiThrows(answer.kind) THEN Throw(seen, "amazon_search")
                    ELSE IF bestSeed = NullOffer
                         THEN [seen EXCEPT !.amazon = "fulfilled", !.amazonValue = NullOffer]
                         ELSE [seen EXCEPT !.amazon = "hydrating", !.amazonValue = bestSeed,
                                           !.outbound = @ + OutboundCalls("hydration")]]
       /\ UNCHANGED <<offers, watchlist, notifications, ops, storageFaults, liveEnabled>>
       /\ UNCHANGED <<varsRank, varsNorm, varsTick, varsCache>>

\* fetchAmazonOffer: the hydration call settles
AmazonHydrationSettle(c) ==
    LET call == calls[c]
    IN /\ call.pc = "fetch"
       /\ call.amazon = "hydrating"
       /\ \E answer \in DetailAnswers :
             LET seen == ProviderFailed(call, "hydration", answer.kind)
                 detail == fetchAmazonProductViaSerpApi(
                               call.amazonValue.asin,
                               querySerpApiPayload(answer.kind, answer.body, NoDetail))
             IN calls' = [calls EXCEPT ![c] =
                    IF querySerpApiThrows(answer.kind)
                    THEN [Throw(seen, "hydration") EXCEPT
                             !.lookup = [status |-> "failed", detail |-> NoDetail]]
                    ELSE [seen EXCEPT !.amazon = "fulfilled",
                                      !.lookup = [status |-> "returned", detail |-> detail],
                                      !.amazonValue = HydratedAmazonOffer(call.amazonValue,
                                                                          detail)]]
       /\ UNCHANGED <<offers, watchlist, notifications, ops, storageFaults, liveEnabled>>
       /\ UNCHANGED <<varsRank, varsNorm, varsTick, varsCache>>

\* fetchShoppingVendors: the shopping search call settles, before or after the
\* calls of the Amazon adapter
ShoppingSettle(c) ==
    LET call == calls[c]
    IN /\ call.pc = "fetch"
       /\ call.shopping = "waiting"
       /\ \E answer \in SearchAnswers({ShoppingPayload}) :
             LET seen == ProviderFailed(call, "shopping", answer.kind)
             IN calls' = [calls EXCEPT ![c] =
                    IF querySerpApiThrows(answer.kind) THEN Throw(seen, "shopping")
                    ELSE [seen EXCEPT
                             !.shopping = "fulfilled",
                             !.shoppingValue =
                                 fetchShoppingVendors(
                                     querySerpApiPayload(answer.kind, answer.body, <<>>),
                                     call.strategy)]]
       /\ UNCHANGED <<offers, watchlist, notifications, ops, storageFaults, liveEnabled>>
       /\ UNCHANGED <<varsRank, varsNorm, varsTick, varsCache>>

\* fetchTopOffers returns: both adapter promises have settled
FetchTopOffersReturn(c) ==
    LET call == calls[c]
    IN /\ call.pc = "fetch"
       /\ call.amazon \in {"rejected", "fulfilled"}
       /\ call.shopping \in {"rejected", "fulfilled"}
       /\ calls' = [calls EXCEPT ![c] =
              NextUpsert([call EXCEPT
                  !.webOffers = fetchTopOffers(call.amazon, call.amazonValue,
                                               call.shopping, call.shoppingValue),
                  !.upsertIndex = 0,
                  !.amazonValue = NullOffer,
                  !.shoppingValue = <<>>,
                  !.lookup = [status |-> "none", detail |-> NoDetail]])]
       /\ UNCHANGED <<offers, watchlist, notifications, ops, storageFaults, liveEnabled>>
       /\ UNCHANGED <<varsRank, varsNorm, varsTick, varsCache>>

\* refreshWebOffersForProduct: one live candidate is persisted, or skipped when it
\* lacks a vendorId, a productUrl or a priceCents
RefreshUpsert(c) ==
    LET call == calls[c]
        o == call.webOffers[call.upsertIndex]
        skip == o.vendorId = "" \/ o.productUrl = "" \/ o.priceCents = 0
    IN /\ call.pc = "upsert"
       /\ \E ok \in IF skip THEN {TRUE} ELSE StorageOutcomes :
             /\ Counted(ok)
             /\ calls' = [calls EXCEPT ![c] =
                    IF ok THEN NextUpsert(call) ELSE Throw(Fault(call), "upsert")]
             /\ offers' = IF ok /\ ~skip
                          THEN OfferUpsert(offers, call.productId, o.vendorId,
                                           [priceCents |-> o.priceCents,
                                            shippingCents |-> o.shippingCents,
                                            etaDays |-> o.etaDays,
                                            inStock |-> o.inStock,
                                            productUrl |-> trim(o.productUrl)])
                          ELSE offers
       /\ UNCHANGED <<watchlist, notifications, ops, liveEnabled>>
       /\ UNCHANGED <<varsRank, varsNorm, varsTick, varsCache>>

\* a loop that does not pass over the vendors already present
NextFallbackIndexNoSkip(from, ids) ==
    IF from <= Len(Fallbacks) THEN from ELSE 0

\* the first fallback at or behind position from whose vendorId is not in ids;
\* 0 when the loop runs out
NextFallbackIndex(from, ids) ==
    LET open == {i \in from..Len(Fallbacks) : Fallbacks[i].vendorId \notin ids}
    IN IF open = {} THEN 0 ELSE CHOOSE i \in open : \A j \in open : i <= j

RECURSIVE MinPriceKey(_)
MinPriceKey(rows) ==
    IF rows = <<>> THEN NoPriceKey ELSE Min(PriceKey(Head(rows)), MinPriceKey(Tail(rows)))

\* refreshWebOffersForProduct: the read of the in-stock offers, and the locals
\* of the fallback loop
RefreshExisting(c) ==
    LET call == calls[c]
        existing == OffersInStock(offers, call.productId)
        existingVendorIds == {existing[i].vendorId : i \in 1..Len(existing)}
        minPrice == MinPriceKey(existing)
        basePrice == IF minPrice < NoPriceKey THEN minPrice ELSE DefaultBasePrice
        read == [call EXCEPT !.existingRead = TRUE,
                             !.existing = existing,
                             !.existingVendorIds = existingVendorIds,
                             !.basePrice = basePrice,
                             !.webOffers = <<>>,
                             !.upsertIndex = 0]
        first == NextFallbackIndex(1, existingVendorIds)
    IN /\ call.pc = "existing"
       /\ \E ok \in StorageOutcomes :
             /\ Counted(ok)
             /\ calls' = [calls EXCEPT ![c] =
                 IF ~ok THEN Throw(Fault(call), "existing")
                 ELSE IF Len(existing) >= 3 \/ first = 0 THEN [read EXCEPT !.pc = "read"]
                 ELSE [read EXCEPT !.pc = "fallback", !.fbIndex = first]]
       /\ UNCHANGED <<offers, watchlist, notifications, ops, liveEnabled>>
       /\ UNCHANGED <<varsRank, varsNorm, varsTick, varsCache>>

\* refreshWebOffersForProduct: one turn of the fallback loop
RefreshFallback(c) ==
    LET call == calls[c]
        fb == Fallbacks[call.fbIndex]
        priceCents == FallbackPrice(call.basePrice, fb)
        ids == call.existingVendorIds \cup {fb.vendorId}
        next == NextFallbackIndex(call.fbIndex + 1, ids)
        added == [call EXCEPT !.existingVendorIds = ids,
                              !.created = Append(@, [vendorId |-> fb.vendorId,
                                                     priceCents |-> priceCents])]
    IN /\ call.pc = "fallback"
       /\ \E ok \in StorageOutcomes :
             LET accepted == ok /\ ~OfferCreateRejected(offers, call.productId, fb.vendorId)
             IN /\ Counted(ok)
                /\ calls' = [calls EXCEPT ![c] =
                       IF ~ok THEN Throw(Fault(call), "create")
                       ELSE IF ~accepted THEN Throw(call, "create")
                       ELSE IF Cardinality(ids) >= 3 \/ next = 0
                            THEN [added EXCEPT !.pc = "read"]
                            ELSE [added EXCEPT !.fbIndex = next]]
                /\ offers' = IF accepted
                             THEN OfferCreate(offers, call.productId, fb.vendorId,
                                              OfferData(priceCents, 0, fb.etaDays,
                                                        FallbackUrl(fb, ProductQuery(
                                                                            call.productId))))
                             ELSE offers
       /\ UNCHANGED <<watchlist, notifications, ops, liveEnabled>>
       /\ UNCHANGED <<varsRank, varsNorm, varsTick, varsCache>>

\* getRankedOffers: the last read, the normaliser and the recommendation
GetRankedOffersRead(c) ==
    LET call == calls[c]
        found == OffersInStock(offers, call.productId)
        normalized == [i \in DOMAIN found |-> normalizeOffer(found[i])]
    IN /\ call.pc = "read"
       /\ \E ok \in StorageOutcomes :
             /\ Counted(ok)
             /\ calls' = [calls EXCEPT ![c] =
                 IF ~ok THEN Throw(Fault(call), "read")
                 ELSE [call EXCEPT
                          !.pc = "return",
                          !.outcome = "result",
                          !.result = normalized,
                          !.recommendedOfferId =
                              recommendedOfferIdForStrategy(normalized, call.strategy)]]
       /\ UNCHANGED <<offers, watchlist, notifications, ops, liveEnabled>>
       /\ UNCHANGED <<varsRank, varsNorm, varsTick, varsCache>>

(***************************************************************************)
(* The Watchlist and PendingNotification tables.  A missing number (null   *)
(* or undefined) of a watchlist item is 0; request bodies carry amounts in *)
(* tenths of a cent, -1 for a field that is absent.                        *)
(***************************************************************************)
Absent == -1

WatchIndex(list, userId, productId) ==
    LET hits == {i \in 1..Len(list) :
                    list[i].userId = userId /\ list[i].productId = productId}
    IN IF hits = {} THEN 0 ELSE CHOOSE i \in hits : \A j \in hits : i <= j

\* the user's defaults: defaultPctDropThreshold 15, no target price, no
\* shipping rule
WatchItem(productId, rules) ==
    [userId |-> UserId, productId |-> productId,
     pctDropThreshold |-> rules.pctDropThreshold,
     targetPriceCents |-> rules.targetPriceCents,
     shippingImprovementOn |-> rules.shippingImprovementOn,
     preferredOfferId |-> NoId,
     lastSeenBestPriceCents |-> 0,
     lastSeenBestEtaDays |-> 0,
     lastNotifiedAt |-> 0]

\* bundle.offers.find((o) => o.id === preferredOfferId) || null
FindOfferById(list, id) ==
    LET hits == {i \in 1..Len(list) : list[i].id = id}
    IN IF id = NoId \/ hits = {} THEN NullOffer
       ELSE list[CHOOSE i \in hits : \A j \in hits : i <= j]

\* POST /watchlist after getRankedOffers has returned: prisma.watchlist.upsert
WatchlistUpsertFromRequest(list, productId, rules, bundleOffers) ==
    LET bestOffer == IF bundleOffers = <<>> THEN NullOffer ELSE bundleOffers[1]
        preferredOffer == FindOfferById(bundleOffers, rules.preferredOfferId)
        trackedOffer == IF preferredOffer # NullOffer THEN preferredOffer ELSE bestOffer
        i == WatchIndex(list, UserId, productId)
        fresh == [WatchItem(productId, rules) EXCEPT
                     !.preferredOfferId =
                         IF preferredOffer # NullOffer THEN preferredOffer.id ELSE NoId,
                     !.lastSeenBestPriceCents =
                         IF trackedOffer # NullOffer THEN trackedOffer.priceCents ELSE 0,
                     !.lastSeenBestEtaDays =
                         IF trackedOffer # NullOffer THEN trackedOffer.etaDays ELSE 0]
    IN IF i = 0 THEN Append(list, fresh)
       ELSE [list EXCEPT ![i] =
                IF preferredOffer # NullOffer
                THEN [@ EXCEPT !.pctDropThreshold = rules.pctDropThreshold,
                               !.targetPriceCents = rules.targetPriceCents,
                               !.shippingImprovementOn = rules.shippingImprovementOn,
                               !.preferredOfferId = preferredOffer.id,
                               !.lastSeenBestPriceCents = trackedOffer.priceCents,
                               !.lastSeenBestEtaDays = trackedOffer.etaDays]
                ELSE [@ EXCEPT !.pctDropThreshold = rules.pctDropThreshold,
                               !.targetPriceCents = rules.targetPriceCents,
                               !.shippingImprovementOn = rules.shippingImprovementOn]]

\* the route answers; POST /watchlist first stores the watchlist item.  The push
\* to the remote watchlist that follows writes nothing here.
Respond(c) ==
    LET call == calls[c]
        stores == call.caller = "POST /watchlist" /\ call.outcome = "result"
    IN /\ call.pc = "return"
       /\ \E ok \in IF stores THEN StorageOutcomes ELSE {TRUE} :
             /\ Counted(ok)
             /\ watchlist' = IF stores /\ ok
                          THEN WatchlistUpsertFromRequest(watchlist, call.productId,
                                                          call.watch, call.result)
                          ELSE watchlist
       /\ calls' = [calls EXCEPT ![c] = IdleCall]
       /\ UNCHANGED <<offers, notifications, ops, liveEnabled>>
       /\ UNCHANGED <<varsRank, varsNorm, varsTick, varsCache>>

\* normalizeCents: null for a missing or non-positive value, else Math.round
normalizeCents(tenths) ==
    IF tenths = Absent \/ tenths <= 0 THEN Absent ELSE (tenths + 5) \div 10

IsSlugChar(ch) == \E i \in 1..36 : CharAt("abcdefghijklmnopqrstuvwxyz0123456789", i) = ch

\* .replace(/[^a-z0-9]+/g, '-')
RECURSIVE DashRuns(_, _)
DashRuns(str, inRun) ==
    IF Len(str) = 0 THEN ""
    ELSE IF IsSlugChar(CharAt(str, 1))
         THEN CharAt(str, 1) \o DashRuns(SubSeq(str, 2, Len(str)), FALSE)
         ELSE (IF inRun THEN "" ELSE "-") \o DashRuns(SubSeq(str, 2, Len(str)), TRUE)

\* .replace(/^-+|-+$/g, '')
RECURSIVE TrimDashes(_)
TrimDashes(str) ==
    IF Len(str) = 0 THEN str
    ELSE IF CharAt(str, 1) = "-" THEN TrimDashes(SubSeq(str, 2, Len(str)))
    ELSE IF CharAt(str, Len(str)) = "-" THEN TrimDashes(SubSeq(str, 1, Len(str) - 1))
    ELSE str

SlugLength == 32

slugifyToken(value, fallback) ==
    LET dashed == TrimDashes(DashRuns(toLowerCase(value), FALSE))
        token == SubSeq(dashed, 1, Min(SlugLength, Len(dashed)))
    IN IF token # "" THEN token ELSE fallback

\* the bodies sent to the price-drop webhook
WebhookPayloads ==
    {[userId |-> UserId, productId |-> p, vendorName |-> "eBay", source |-> "",
      newPriceCents |-> 10000, shippingCents |-> Absent, etaDays |-> 30,
      productUrl |-> "https://www.amazon.com/dp/B000000001"] : p \in Products}
    \cup {[userId |-> UserId, productId |-> "p1", vendorName |-> "", source |-> "",
           newPriceCents |-> 4, shippingCents |-> Absent, etaDays |-> 0, productUrl |-> ""],
          [userId |-> UserId, productId |-> "p2", vendorName |-> "eBay", source |-> "",
           newPriceCents |-> 6000000, shippingCents |-> 4990, etaDays |-> -3,
           productUrl |-> ""]}

\* a row of pendingNotification.create: deliveredAt is not given and is null
Notification(productId, type, priceCents, etaDays, offerId) ==
    [userId |-> UserId, productId |-> productId, type |-> type, priceCents |-> priceCents,
     etaDays |-> etaDays, offerId |-> offerId, deliveredAt |-> Absent]

\* POST /integrations/extension/price-drop-webhook
ExtensionWebhook ==
    /\ NoRequestInFlight
    /\ ops < MaxOps
    /\ ops' = ops + 1
    /\ \E payload \in WebhookPayloads :
          LET i == WatchIndex(watchlist, payload.userId, payload.productId)
              newPriceCents == normalizeCents(payload.newPriceCents)
              named == trim(IF payload.vendorName # "" THEN payload.vendorName
                            ELSE "Extension Deal")
              vendorToken == slugifyToken(named, "vendor")
              source == slugifyToken(IF payload.source # "" THEN payload.source
                                     ELSE "extension", "extension")
              vendorId == "ext:" \o source \o ":" \o vendorToken
              productUrl == IF trim(payload.productUrl) # "" THEN trim(payload.productUrl)
                            ELSE "https://example.com"
              shipping == normalizeCents(payload.shippingCents)
              data == OfferData(newPriceCents,
                                IF shipping # Absent THEN shipping ELSE 0,
                                Max(1, IF payload.etaDays # 0 THEN payload.etaDays ELSE 5),
                                productUrl)
              writes == newPriceCents # Absent /\ newPriceCents # 0
          IN IF i = 0
             THEN UNCHANGED <<offers, notifications>>
             ELSE /\ offers' = IF writes
                               THEN OfferUpsert(offers, watchlist[i].productId, vendorId, data)
                               ELSE offers
                  /\ notifications' =
                         Append(notifications,
                                Notification(watchlist[i].productId, "EXTENSION_PRICE_DROP",
                                             IF writes THEN newPriceCents ELSE 0, 0, NoId))
    /\ UNCHANGED <<watchlist, calls, storageFaults, liveEnabled>>
    /\ UNCHANGED <<varsRank, varsNorm, varsTick, varsCache>>

(***************************************************************************)
(* Shared-watchlist sync                                                   *)
(***************************************************************************)
NewProduct == "p-new"

\* ensureProductFromSharedItem: the product of an offer with the item's URL,
\* else the product of the item's title and brand, else a product created for
\* them; "" (null) for an item without a title.  The items carry no upc.
ensureProductFromSharedItem(item, store) ==
    LET listingUrl == trim(item.productUrl)
        byUrl == {i \in 1..Len(store) : store[i].productUrl = listingUrl}
        title == normalizeWhitespace(item.title)
        brand == IF normalizeWhitespace(item.brand) # "" THEN normalizeWhitespace(item.brand)
                 ELSE "Unknown"
        named == {q \in Products : ProductTitle(q) = title /\ ProductBrand(q) = brand}
    IN IF listingUrl # "" /\ byUrl # {}
       THEN store[CHOOSE i \in byUrl : \A j \in byUrl : i <= j].productId
       ELSE IF title = "" THEN ""
       ELSE IF named # {} THEN CHOOSE q \in named : TRUE
       ELSE NewProduct

\* String(domain).trim().toLowerCase().replace(/^www\./i, '')
BareDomain(domain) ==
    LET d == toLowerCase(trim(domain))
    IN IF startsWith(d, "www.") THEN SubSeq(d, 5, Len(d)) ELSE d

vendorIdForSharedDomain(domain) ==
    IF BareDomain(domain) = "" THEN "shared:unknown"
    ELSE "shared:" \o slugifyToken(BareDomain(domain), "site")

\* normalizeSharedAlertRules of an item without rules of its own
SharedAlertRules ==
    [preferredOfferId |-> NoId, pctDropThreshold |-> 15, targetPriceCents |-> 0,
     shippingImprovementOn |-> FALSE]

SharedEtaDays == 5

\* the loop of applySharedWatchlistSync over the items
RECURSIVE SyncItems(_, _, _, _, _, _)
SyncItems(items, store, list, keptProductIds, importedCount, skippedCount) ==
    IF items = <<>>
    THEN [offers |-> store, watchlist |-> list, keptProductIds |-> keptProductIds,
          importedCount |-> importedCount, skippedCount |-> skippedCount]
    ELSE LET sharedItem == Head(items)
             productId == ensureProductFromSharedItem(sharedItem, store)
             preferredProductUrl == trim(sharedItem.productUrl)
             listingDomain == IF BareDomain(sharedItem.domain) # ""
                              THEN BareDomain(sharedItem.domain)
                              ELSE IF preferredProductUrl # ""
                                   THEN hostnameFromUrl(preferredProductUrl) ELSE ""
             listingPriceCents == normalizeCents(sharedItem.priceCents)
             priced == /\ preferredProductUrl # ""
                       /\ listingDomain # ""
                       /\ listingPriceCents # Absent
                       /\ listingPriceCents # 0
             i == WatchIndex(list, UserId, productId)
         IN IF productId = ""
            THEN SyncItems(Tail(items), store, list, keptProductIds,
                           importedCount, skippedCount + 1)
            ELSE SyncItems(
                     Tail(items),
                     IF priced
                     THEN OfferUpsert(store, productId, vendorIdForSharedDomain(listingDomain),
                                      OfferData(listingPriceCents, 0, SharedEtaDays,
                                                preferredProductUrl))
                     ELSE store,
                     IF i = 0 THEN Append(list, WatchItem(productId, SharedAlertRules))
                     ELSE [list EXCEPT ![i] =
                              [@ EXCEPT
                                  !.pctDropThreshold = SharedAlertRules.pctDropThreshold,
                                  !.targetPriceCents = SharedAlertRules.targetPriceCents,
                                  !.shippingImprovementOn =
                                      SharedAlertRules.shippingImprovementOn]],
                     keptProductIds \cup {productId},
                     importedCount + 1,
                     skippedCount)

SharedItem(title, brand, productUrl, domain, priceCents) ==
    [title |-> title, brand |-> brand, productUrl |-> productUrl, domain |-> domain,
     priceCents |-> priceCents]

\* an eBay listing of the first product with a price; the second product, by
\* title only; an item without a title
SharedItemLists ==
    { << SharedItem("Widget  Pro ", "Acme", "https://www.ebay.com/itm/123", "", 15000) >>,
      << SharedItem("Q&A Set", "", "", "WWW.Shop.Example.com", Absent) >>,
      << SharedItem("", "Acme", "https://www.ebay.com/itm/9", "", 15000) >> }

\* a sync whose replace removes the items of every user
applySharedWatchlistSyncAllUsers(items, replace) ==
    LET done == SyncItems(items, offers, watchlist, {}, 0, 0)
    IN /\ offers' = done.offers
       /\ watchlist' = IF replace
                       THEN SelectSeq(done.watchlist,
                                      LAMBDA w : w.productId \in done.keptProductIds)
                       ELSE done.watchlist
       /\ syncResponse' =
              [items |-> items, replace |-> replace,
               importedCount |-> done.importedCount,
               skippedCount |-> done.skippedCount,
               removedCount |-> 0]

\* applySharedWatchlistSync for the one user: the loop, then the deleteMany of
\* replace; importedCount counts the items that reach the end of the loop body
applySharedWatchlistSync(items, replace) ==
    LET existing == SelectSeq(watchlist, LAMBDA w : w.userId = UserId)
        done == SyncItems(items, offers, watchlist, {}, 0, 0)
        toRemove == SelectSeq(existing, LAMBDA w : w.productId \notin done.keptProductIds)
    IN /\ offers' = done.offers
       /\ watchlist' = IF replace
                       THEN SelectSeq(done.watchlist,
                                      LAMBDA w : w.userId # UserId
                                                 \/ w.productId \in done.keptProductIds)
                       ELSE done.watchlist
       /\ syncResponse' =
              [items |-> items, replace |-> replace,
               importedCount |-> done.importedCount,
               skippedCount |-> done.skippedCount,
               removedCount |-> IF replace THEN Len(toRemove) ELSE 0]

\* POST /integrations/shared-watchlist/sync for the one user
SharedWatchlistSync ==
    /\ NoRequestInFlight
    /\ ops < MaxOps
    /\ ops' = ops + 1
    /\ \E items \in SharedItemLists, replace \in BOOLEAN :
          applySharedWatchlistSync(items, replace)
    /\ UNCHANGED <<changedItems, ticks>>
    /\ UNCHANGED <<notifications, calls, storageFaults, liveEnabled>>
    /\ UNCHANGED <<varsRank, varsNorm, varsCache>>

(***************************************************************************)
(* Price tick                                                              *)
(***************************************************************************)
\* a clamp that bounds the value below only
clampNoMax(value, min, max) == Max(min, value)

clamp(value, min, max) == Max(min, Min(value, max))

TickMinPrice == 50
TickMaxPrice == 500000
TickMinEta == 1
TickMaxEta == 10

\* the draws of one tick: the price drift in percent and the delivery shift of
\* the offers, taken in turn
TickSources ==
    { << [drift |-> 0, etaShift |-> 0] >>,
      << [drift |-> -2, etaShift |-> -1] >>,
      << [drift |-> 1, etaShift |-> 1], [drift |-> -2, etaShift |-> 0] >> }

DrawAt(source, i) == source[((i - 1) % Len(source)) + 1]

\* the update loop of runPriceTick
TickOffers(store, source) ==
    [i \in 1..Len(store) |->
        [store[i] EXCEPT
            !.priceCents = clamp(RoundMult(@, 100 + DrawAt(source, i).drift),
                                 TickMinPrice, TickMaxPrice),
            !.etaDays = clamp(@ + DrawAt(source, i).etaShift, TickMinEta, TickMaxEta)]]

\* changedItems.push({...}) for every offer of the update loop
ChangedItems(before, after) ==
    [i \in 1..Len(before) |->
        [offerId |-> before[i].id, productId |-> before[i].productId,
         oldPriceCents |-> before[i].priceCents, newPriceCents |-> after[i].priceCents,
         oldEtaDays |-> before[i].etaDays, newEtaDays |-> after[i].etaDays]]

\* offers.reduce(...) of getBestOfferForProduct
RECURSIVE BestOfferReduce(_, _)
BestOfferReduce(best, rest) ==
    IF rest = <<>> THEN best
    ELSE LET next == Head(rest)
         IN BestOfferReduce(
                IF best = NullOffer THEN next
                ELSE IF Total(next) < Total(best) THEN next
                ELSE IF Total(next) = Total(best) /\ next.etaDays < best.etaDays THEN next
                ELSE best,
                Tail(rest))

getBestOfferForProduct(store, productId) ==
    BestOfferReduce(NullOffer, OffersInStock(store, productId))

\* a rule that asks for a drop beyond the threshold
shouldNotifyStrictDrop(item, bestOffer) ==
    LET baseline == IF item.lastSeenBestPriceCents # 0 THEN item.lastSeenBestPriceCents
                    ELSE bestOffer.priceCents
    IN \/ (baseline - bestOffer.priceCents) * 100 > item.pctDropThreshold * baseline
       \/ item.targetPriceCents # 0 /\ bestOffer.priceCents <= item.targetPriceCents
       \/ /\ item.shippingImprovementOn
          /\ item.lastSeenBestEtaDays # 0
          /\ bestOffer.etaDays < item.lastSeenBestEtaDays

\* shouldNotify of runPriceTick for a watchlist item and its best offer
shouldNotify(item, bestOffer) ==
    LET baseline == IF item.lastSeenBestPriceCents # 0 THEN item.lastSeenBestPriceCents
                    ELSE bestOffer.priceCents
        dropReached == IF baseline > 0
                       THEN (baseline - bestOffer.priceCents) * 100
                                >= item.pctDropThreshold * baseline
                       ELSE 0 >= item.pctDropThreshold
        targetHit == item.targetPriceCents # 0
                     /\ bestOffer.priceCents <= item.targetPriceCents
        shippingImproved == /\ item.shippingImprovementOn
                            /\ item.lastSeenBestEtaDays # 0
                            /\ bestOffer.etaDays < item.lastSeenBestEtaDays
    IN dropReached \/ targetHit \/ shippingImproved

\* a loop that moves the baseline of an item to the current best price whether
\* or not the item fires
RECURSIVE TickWatchItemsAdvancing(_, _, _, _)
TickWatchItemsAdvancing(i, store, list, queue) ==
    IF i > Len(list) THEN [watchlist |-> list, notifications |-> queue]
    ELSE LET item == list[i]
             bestOffer == getBestOfferForProduct(store, item.productId)
         IN IF bestOffer = NullOffer
            THEN TickWatchItemsAdvancing(i + 1, store, list, queue)
            ELSE TickWatchItemsAdvancing(
                     i + 1, store,
                     [list EXCEPT ![i] =
                         [@ EXCEPT !.lastNotifiedAt =
                                       IF shouldNotify(item, bestOffer) THEN 1 ELSE @,
                                   !.lastSeenBestPriceCents = bestOffer.priceCents,
                                   !.lastSeenBestEtaDays = bestOffer.etaDays]],
                     IF shouldNotify(item, bestOffer)
                     THEN Append(queue, Notification(item.productId, "DEAL_ALERT",
                                                     bestOffer.priceCents, bestOffer.etaDays,
                                                     bestOffer.id))
                     ELSE queue)

\* a loop that drops the pinned offer of an item that fires
RECURSIVE TickWatchItemsUnpinning(_, _, _, _)
TickWatchItemsUnpinning(i, store, list, queue) ==
    IF i > Len(list) THEN [watchlist |-> list, notifications |-> queue]
    ELSE LET item == list[i]
             bestOffer == getBestOfferForProduct(store, item.productId)
         IN IF bestOffer = NullOffer \/ ~shouldNotify(item, bestOffer)
            THEN TickWatchItemsUnpinning(i + 1, store, list, queue)
            ELSE TickWatchItemsUnpinning(
                     i + 1, store,
                     [list EXCEPT ![i] =
                         [@ EXCEPT !.lastNotifiedAt = 1,
                                   !.preferredOfferId = NoId,
                                   !.lastSeenBestPriceCents = bestOffer.priceCents,
                                   !.lastSeenBestEtaDays = bestOffer.etaDays]],
                     Append(queue, Notification(item.productId, "DEAL_ALERT",
                                                bestOffer.priceCents, bestOffer.etaDays,
                                                bestOffer.id)))

\* the loop of runPriceTick over the watchlist items
RECURSIVE TickWatchItems(_, _, _, _)
TickWatchItems(i, store, list, queue) ==
    IF i > Len(list) THEN [watchlist |-> list, notifications |-> queue]
    ELSE LET item == list[i]
             bestOffer == getBestOfferForProduct(store, item.productId)
         IN IF bestOffer = NullOffer \/ ~shouldNotify(item, bestOffer)
            THEN TickWatchItems(i + 1, store, list, queue)
            ELSE TickWatchItems(
                     i + 1, store,
                     [list EXCEPT ![i] =
                         [@ EXCEPT !.lastNotifiedAt = 1,
                                   !.lastSeenBestPriceCents = bestOffer.priceCents,
                                   !.lastSeenBestEtaDays = bestOffer.etaDays]],
                     Append(queue, Notification(item.productId, "DEAL_ALERT",
                                                bestOffer.priceCents, bestOffer.etaDays,
                                                bestOffer.id)))

\* runPriceTick with the draws of source
PriceTick(source) ==
    LET ticked == TickOffers(offers, source)
        done == TickWatchItems(1, ticked, watchlist, notifications)
    IN /\ offers' = ticked
       /\ watchlist' = done.watchlist
       /\ notifications' = done.notifications
       /\ changedItems' = ChangedItems(offers, ticked)
       /\ UNCHANGED <<syncResponse, ticks>>

\* POST /simulate/priceTick
runPriceTick ==
    /\ NoRequestInFlight
    /\ ops < MaxOps
    /\ ops' = ops + 1
    /\ \E source \in TickSources : PriceTick(source)
    /\ UNCHANGED <<calls, storageFaults, liveEnabled>>
    /\ UNCHANGED <<varsRank, varsNorm, varsCache>>

StoreNext ==
    \/ \E c \in Slots : GetRankedOffersStart(c)
    \/ \E c \in Slots : RefreshLookup(c)
    \/ \E c \in Slots : AmazonSearchSettle(c)
    \/ \E c \in Slots : AmazonHydrationSettle(c)
    \/ \E c \in Slots : ShoppingSettle(c)
    \/ \E c \in Slots : FetchTopOffersReturn(c)
    \/ \E c \in Slots : RefreshUpsert(c)
    \/ \E c \in Slots : RefreshExisting(c)
    \/ \E c \in Slots : RefreshFallback(c)
    \/ \E c \in Slots : GetRankedOffersRead(c)
    \/ \E c \in Slots : Respond(c)
    \/ ExtensionWebhook
    \/ SharedWatchlistSync
    \/ runPriceTick

Spec == StoreInit /\ [][StoreNext]_vars

(***************************************************************************)
(* Properties of getRankedOffers and of the offer store                    *)
(***************************************************************************)
\* a call of getRankedOffers with refreshLive that has returned, for a product
\* that exists, with every storage call answered
ReturnedCalls ==
    {c \in Slots : /\ calls[c].pc = "return"
                   /\ calls[c].refreshLive
                   /\ calls[c].productId \in Products
                   /\ ~calls[c].storageFailed}

\* C4: whatever the provider answers (network error, timeout, non-2xx status,
\* unparseable or empty body) on the Amazon search, its hydration or the shopping
\* search, getRankedOffers with refreshLive returns a result and raises nothing,
\* when the product exists and storage answers.
C4_ProviderFailureNeverRaises ==
    \A c \in ReturnedCalls :
        /\ calls[c].outcome = "result"
        /\ calls[c].recommendedOfferId \in
               {calls[c].result[i].id : i \in DOMAIN calls[c].result}

\* the hydration call and the shopping search have both failed and the call has
\* returned its offers
C4_Witness ==
    \E c \in ReturnedCalls :
        /\ {"hydration", "shopping"} \subseteq calls[c].providerFailed
        /\ calls[c].shopping = "rejected"
        /\ calls[c].outcome = "result"
        /\ calls[c].result # <<>>

FallbackVendorIds == {"fallback:ebay", "fallback:walmart", "fallback:target",
                      "fallback:bestbuy"}

VendorIdsOf(rows) == {rows[i].vendorId : i \in DOMAIN rows}

\* C5: with k in-stock offers after the live step, the refresh inserts exactly
\* 3 - k synthetic offers when k < 3, each from a fallback vendor not already
\* present, so that exactly 3 in-stock offers are returned; it inserts none when
\* k >= 3; and no two returned offers share a vendorId.
C5_FallbackTopsUpToThree ==
    \A c \in ReturnedCalls :
        LET call == calls[c]
            k == Len(call.existing)
            made == VendorIdsOf(call.created)
        IN /\ call.existingRead
           /\ k < 3 => /\ Len(call.created) = 3 - k
                       /\ Cardinality(made) = 3 - k
                       /\ made \subseteq FallbackVendorIds
                       /\ made \cap VendorIdsOf(call.existing) = {}
                       /\ Len(call.result) = 3
                       /\ made \subseteq VendorIdsOf(call.result)
           /\ k >= 3 => /\ call.created = <<>>
                        /\ Len(call.result) = k
           /\ Cardinality(VendorIdsOf(call.result)) = Len(call.result)

\* a product that already has the eBay fallback, and fewer than 3 offers, is
\* topped up to 3 by the other fallback vendors
C5_Witness ==
    \E c \in ReturnedCalls :
        /\ "fallback:ebay" \in VendorIdsOf(calls[c].existing)
        /\ Len(calls[c].existing) < 3
        /\ calls[c].created # <<>>
        /\ Len(calls[c].result) = 3

FallbackFactor(vendorId) ==
    CASE vendorId = "fallback:ebay" -> 92
      [] vendorId = "fallback:walmart" -> 98
      [] vendorId = "fallback:target" -> 103
      [] vendorId = "fallback:bestbuy" -> 105

MinimumPrice(rows) ==
    CHOOSE m \in {rows[i].priceCents : i \in DOMAIN rows} :
        \A i \in DOMAIN rows : m <= rows[i].priceCents

\* max(99, round(base x factor)), base the least price of the existing offers
ExpectedFallbackPrice(existing, vendorId) ==
    LET base == IF existing = <<>> THEN 1999 ELSE MinimumPrice(existing)
        scaled == base * FallbackFactor(vendorId)
        rounded == (scaled \div 100) + (IF scaled % 100 >= 50 THEN 1 ELSE 0)
    IN IF rounded > 99 THEN rounded ELSE 99

PriceOfVendor(rows, vendorId) ==
    LET hits == {i \in DOMAIN rows : rows[i].vendorId = vendorId}
    IN IF hits = {} THEN 0 ELSE rows[CHOOSE i \in hits : TRUE].priceCents

IdOfVendor(rows, vendorId) ==
    LET hits == {i \in DOMAIN rows : rows[i].vendorId = vendorId}
    IN IF hits = {} THEN NoId ELSE rows[CHOOSE i \in hits : TRUE].id

\* C6: every synthetic offer is stored and returned with the price
\* max(99, round(base x factor)), never below 99, with base the least priceCents
\* of the product's existing in-stock offers or 1999 without any, and the factors
\* eBay 0.92, Walmart 0.98, Target 1.03, Best Buy 1.05; a product with no offers
\* gets eBay 1839, Walmart 1959, Target 2059, and BEST_PRICE recommends eBay.
C6_FallbackPrices ==
    \A c \in ReturnedCalls :
        LET call == calls[c]
        IN /\ \A i \in DOMAIN call.created :
                 LET vendorId == call.created[i].vendorId
                     stored == PriceOfVendor(OffersInStock(offers, call.productId), vendorId)
                 IN /\ stored = ExpectedFallbackPrice(call.existing, vendorId)
                    /\ stored >= 99
                    /\ PriceOfVendor(call.result, vendorId) = stored
           /\ call.existing = <<>> =>
                 /\ Len(call.result) = 3
                 /\ PriceOfVendor(call.result, "fallback:ebay") = 1839
                 /\ PriceOfVendor(call.result, "fallback:walmart") = 1959
                 /\ PriceOfVendor(call.result, "fallback:target") = 2059
                 /\ call.strategy = "BEST_PRICE" =>
                        call.recommendedOfferId = IdOfVendor(call.result, "fallback:ebay")

\* the floor applies: the only existing offer costs 100 cents and the eBay
\* fallback is stored at 99
C6_Witness ==
    \E c \in ReturnedCalls :
        /\ Len(calls[c].existing) = 1
        /\ calls[c].existing[1].priceCents = 100
        /\ PriceOfVendor(calls[c].result, "fallback:ebay") = 99
        /\ \E i \in DOMAIN calls[c].created : calls[c].created[i].vendorId = "fallback:ebay"

OneRowPerKey ==
    \A i, j \in DOMAIN offers :
        (offers[i].productId = offers[j].productId /\ offers[i].vendorId = offers[j].vendorId)
            => i = j

KeysKept ==
    \A i \in DOMAIN offers : \A j \in DOMAIN offers' :
        offers'[j].id = offers[i].id
            => /\ offers'[j].productId = offers[i].productId
               /\ offers'[j].vendorId = offers[i].vendorId

\* C9: in every reachable state there is at most one Offer row for a pair
\* (productId, vendorId), and no step changes the productId or the vendorId of
\* an existing row.
C9_OneRowPerProductAndVendor == []OneRowPerKey /\ [][KeysKept]_vars

\* the Amazon row of a product was written twice: the eBay fallback beside it was
\* priced from its first price, 2499, and the row now carries the hydrated
\* price, 100
C9_Witness ==
    \E i, j \in DOMAIN offers :
        /\ offers[i].productId = offers[j].productId
        /\ offers[i].vendorId = "web:amazon"
        /\ offers[i].priceCents = 100
        /\ offers[j].vendorId = "fallback:ebay"
        /\ offers[j].priceCents = 2299
        /\ offers[i].id < offers[j].id

\* C10: every persisted Offer has priceCents > 0, shippingCents >= 0 and
\* 1 <= etaDays <= 14.
C10_OfferBounds ==
    \A i \in DOMAIN offers :
        /\ offers[i].priceCents > 0
        /\ offers[i].shippingCents >= 0
        /\ offers[i].etaDays >= 1
        /\ offers[i].etaDays <= 14

(***************************************************************************)
(* Specification of the price tick on its own: a store with two offers of  *)
(* one product and one watchlist item, as POST /watchlist, the webhook and *)
(* earlier ticks can leave them, and up to MaxTicks ticks.                 *)
(***************************************************************************)
\* price and delivery of the first offer: the prices around a 15% drop from
\* 10000, and the ends of the ranges the tick clamps to
TickFirstOffers ==
    { [priceCents |-> 8499, etaDays |-> 5], [priceCents |-> 8500, etaDays |-> 5],
      [priceCents |-> 8600, etaDays |-> 5], [priceCents |-> 10000, etaDays |-> 1],
      [priceCents |-> 50, etaDays |-> 10], [priceCents |-> 499999, etaDays |-> 14] }

TickSecondPrices == {9000, 20000}

TickWatchlists ==
    { << [WatchItem("p1", [pctDropThreshold |-> t, targetPriceCents |-> target,
                           shippingImprovementOn |-> ship]) EXCEPT
              !.preferredOfferId = pinned,
              !.lastSeenBestPriceCents = seen,
              !.lastSeenBestEtaDays = IF seen = 0 THEN 0 ELSE 5] >> :
        t \in {5, 15}, target \in {0, 8500}, ship \in BOOLEAN, pinned \in {NoId, 2},
        seen \in {0, 10000} }

\* the draws of the ticks of this specification
TickDraws ==
    TickSources \cup { << [drift |-> 2, etaShift |-> 1] >>,
                       << [drift |-> -1, etaShift |-> 0] >> }

TickInit ==
    /\ RankParked
    /\ NormParked
    /\ CacheParked
    /\ TickParked
    /\ \E first \in TickFirstOffers, second \in TickSecondPrices :
          offers = << OfferRow(1, "p1", "web:amazon",
                               OfferData(first.priceCents, 0, first.etaDays,
                                         "https://www.amazon.com/dp/B000000001")),
                      OfferRow(2, "p1", "web:ebay",
                               OfferData(second, 0, 3, "https://www.ebay.com/itm/123")) >>
    /\ watchlist \in TickWatchlists
    /\ notifications = <<>>
    /\ calls = [c \in Slots |-> IdleCall]
    /\ ops = 0
    /\ storageFaults = 0
    /\ liveEnabled = FALSE

\* POST /simulate/priceTick, one tick after the other
SimulatePriceTick ==
    /\ ops < MaxTicks
    /\ ops' = ops + 1
    /\ \E source \in TickDraws : PriceTick(source)
    /\ UNCHANGED <<calls, storageFaults, liveEnabled>>
    /\ UNCHANGED <<varsRank, varsNorm, varsCache>>

TickNext == SimulatePriceTick

SpecTick == TickInit /\ [][TickNext]_vars

\* the notifications a step queues
QueuedNow == {notifications'[n] : n \in (Len(notifications) + 1)..Len(notifications')}

\* the watchlist item at position i fires in a step
Fires(i) ==
    \E n \in QueuedNow : n.type = "DEAL_ALERT" /\ n.productId = watchlist[i].productId

\* the offer the tick evaluates an item against, after the drift
Evaluated(i) == getBestOfferForProduct(offers', watchlist[i].productId)

DropReached(baseline, priceCents, threshold) ==
    IF baseline = 0 THEN 0 >= threshold
    ELSE (baseline - priceCents) * 100 >= threshold * baseline

AlertRule(item, o) ==
    \/ DropReached(item.lastSeenBestPriceCents, o.priceCents, item.pctDropThreshold)
    \/ item.targetPriceCents # 0 /\ o.priceCents <= item.targetPriceCents
    \/ item.shippingImprovementOn /\ o.etaDays < item.lastSeenBestEtaDays

DropRuleOnly(item) ==
    item.targetPriceCents = 0 /\ ~item.shippingImprovementOn

\* C11: in a tick a watchlist item whose product has an in-stock offer fires if
\* and only if the drop from lastSeenBestPriceCents reaches pctDropThreshold (the
\* drop is 0 without a baseline), or the target price is set and met, or the
\* shipping rule is on and etaDays is below lastSeenBestEtaDays; with threshold 15
\* and baseline 10000 it does not fire at 8600 and fires at 8500 and at 8499.
C11_FiresExactlyOnRule ==
    [][\A i \in DOMAIN watchlist :
          LET item == watchlist[i]
              o == Evaluated(i)
          IN o # NullOffer =>
                /\ Fires(i) <=> AlertRule(item, o)
                /\ (/\ DropRuleOnly(item)
                    /\ item.pctDropThreshold = 15
                    /\ item.lastSeenBestPriceCents = 10000) =>
                       /\ o.priceCents = 8600 => ~Fires(i)
                       /\ o.priceCents \in {8499, 8500} => Fires(i)]_vars

\* an item with threshold 15 and no other rule has fired at exactly 8500 from
\* the baseline 10000, in the first tick
C11_Witness ==
    /\ ops = 1
    /\ Len(notifications) = 1
    /\ notifications[1].priceCents = 8500
    /\ watchlist[1].pctDropThreshold = 15
    /\ DropRuleOnly(watchlist[1])
    /\ watchlist[1].lastSeenBestPriceCents = 8500
    /\ changedItems[1].oldPriceCents = 8500

\* the fields of a watchlist item that the alert engine does not own
RuleFields(item) ==
    [userId |-> item.userId, productId |-> item.productId,
     pctDropThreshold |-> item.pctDropThreshold,
     targetPriceCents |-> item.targetPriceCents,
     shippingImprovementOn |-> item.shippingImprovementOn,
     preferredOfferId |-> item.preferredOfferId]

\* C12: a tick leaves every watchlist item that does not fire unchanged, the
\* last-seen baseline and the notified timestamp included, and changes of an item
\* that fires only lastSeenBestPriceCents, lastSeenBestEtaDays and lastNotifiedAt,
\* never the thresholds, the target price, the shipping flag or the pinned offer.
C12_TickFrame ==
    [][/\ Len(watchlist') = Len(watchlist)
       /\ \A i \in DOMAIN watchlist :
             IF Fires(i)
             THEN RuleFields(watchlist'[i]) = RuleFields(watchlist[i])
             ELSE watchlist'[i] = watchlist[i]]_vars

\* an item with a pinned offer, a target price and the shipping rule has fired
\* and holds a new baseline; a later tick has passed without it firing again
C12_Witness ==
    /\ ops = 2
    /\ Len(notifications) = 1
    /\ watchlist[1].lastNotifiedAt = 1
    /\ watchlist[1].preferredOfferId = 2
    /\ watchlist[1].targetPriceCents = 8500
    /\ watchlist[1].shippingImprovementOn
    /\ watchlist[1].lastSeenBestPriceCents = notifications[1].priceCents
    /\ watchlist[1].lastSeenBestPriceCents \notin {0, 10000}

\* an item with a baseline and a positive drop threshold, no target price and
\* the shipping rule off
DropOnly(item) ==
    /\ item.lastSeenBestPriceCents > 0
    /\ item.pctDropThreshold > 0
    /\ item.targetPriceCents = 0
    /\ ~item.shippingImprovementOn

\* C13: over successive ticks an item with baseline B and threshold T > 0 (no
\* target price, shipping rule off) fires at the first tick at which the price
\* p of its best offer has (B - p) / B x 100 >= T: at every tick where the drop
\* falls short the item does not fire and its baseline stays B, whatever came
\* before, and at the tick where the drop is reached it fires and its baseline
\* becomes the price it fired at.
C13_FiresAtFirstCrossing ==
    [][\A i \in DOMAIN watchlist :
          LET item == watchlist[i]
              B == item.lastSeenBestPriceCents
              o == Evaluated(i)
          IN (DropOnly(item) /\ o # NullOffer) =>
                IF (B - o.priceCents) * 100 >= item.pctDropThreshold * B
                THEN /\ Fires(i)
                     /\ watchlist'[i].lastSeenBestPriceCents = o.priceCents
                     /\ notifications'[Len(notifications')].priceCents = o.priceCents
                ELSE /\ ~Fires(i)
                     /\ watchlist'[i].lastSeenBestPriceCents = B]_vars

\* three ticks of 2% each from 10000: the first two fall short of the 5%
\* threshold and leave the baseline, the third crosses it and fires
C13_Witness ==
    /\ ops = 3
    /\ Len(notifications) = 1
    /\ DropOnly(watchlist[1])
    /\ watchlist[1].pctDropThreshold = 5
    /\ notifications[1].priceCents = 9412
    /\ watchlist[1].lastSeenBestPriceCents = 9412
    /\ changedItems[1].oldPriceCents = 9604

\* the in-stock offer that an item pins, NullOffer when it pins none or the
\* pinned row is not an in-stock offer of its product
PinnedOffer(store, item) ==
    IF /\ item.preferredOfferId # NoId
       /\ item.preferredOfferId \in DOMAIN store
       /\ store[item.preferredOfferId].productId = item.productId
       /\ store[item.preferredOfferId].inStock
    THEN store[item.preferredOfferId]
    ELSE NullOffer

\* C14: in a tick, an item that pins an in-stock offer of its product has the
\* alert rule evaluated against the pinned offer, not against the computed
\* lowest-total offer, even when another offer is cheaper: it fires exactly when
\* the rule holds for the pinned offer, and the alert carries the pinned offer.
C14_PinnedOfferEvaluated ==
    [][\A i \in DOMAIN watchlist :
          LET item == watchlist[i]
              pinned == PinnedOffer(offers', item)
          IN pinned # NullOffer =>
                /\ Fires(i) <=> AlertRule(item, pinned)
                /\ Fires(i) =>
                      /\ notifications'[Len(notifications')].offerId = pinned.id
                      /\ watchlist'[i].lastSeenBestPriceCents = pinned.priceCents]_vars

\* the least and the greatest price a drift in [-2%, +2%] can give from p
DriftLow(p) == clamp((p * 98 + 50) \div 100, TickMinPrice, TickMaxPrice)
DriftHigh(p) == clamp((p * 102 + 50) \div 100, TickMinPrice, TickMaxPrice)

\* C15: after a tick every stored offer has priceCents in [50, 500000] and
\* etaDays in [1, 10]; its new price lies between the clamped roundings of
\* p x 0.98 and p x 1.02 of its price p before the tick, so an offer priced
\* 10000 ends in [9800, 10200]; changedItems has exactly one entry for every
\* stored offer, holding its price and etaDays before and after.
C15_TickBounds ==
    [][/\ Len(offers') = Len(offers)
       /\ Len(changedItems') = Len(offers)
       /\ \A k \in DOMAIN offers :
             /\ offers'[k].priceCents \in TickMinPrice..TickMaxPrice
             /\ offers'[k].etaDays \in TickMinEta..TickMaxEta
             /\ offers'[k].priceCents >= DriftLow(offers[k].priceCents)
             /\ offers'[k].priceCents <= DriftHigh(offers[k].priceCents)
             /\ offers[k].priceCents = 10000 => offers'[k].priceCents \in 9800..10200
             /\ changedItems'[k].offerId = offers[k].id
             /\ changedItems'[k].oldPriceCents = offers[k].priceCents
             /\ changedItems'[k].newPriceCents = offers'[k].priceCents
             /\ changedItems'[k].oldEtaDays = offers[k].etaDays
             /\ changedItems'[k].newEtaDays = offers'[k].etaDays]_vars

\* a tick has clamped a price at the upper bound, a price at the lower bound
\* stays there, and an etaDays of 14 has come down to 10
C15_Witness ==
    /\ ops >= 1
    /\ Len(changedItems) = 2
    /\ changedItems[1].oldPriceCents = 499999
    /\ changedItems[1].newPriceCents = 500000
    /\ changedItems[1].oldEtaDays = 14
    /\ changedItems[1].newEtaDays = 10
    /\ offers[1].priceCents = 500000

(***************************************************************************)
(* Specification of the provider response cache on its own: requests to    *)
(* querySerpApi start, their outbound calls settle in any order, and the   *)
(* clock advances.  serpResponseCache holds the entries of the Map in      *)
(* insertion order.  The time to live and the capacity are scaled down     *)
(* (300000 ms and 500 entries in the source) so that expiry and eviction   *)
(* happen within a few requests.                                           *)
(***************************************************************************)
CacheTtl == 1
CacheCapacity == 2
MaxRequests == 4
MaxInFlight == 2
MaxNow == 2

NullPayload == "null"
EmptyPayload == "{}"
StubPayload == "{search_metadata}"

\* positiveInteger(limit, 12, 1, 25)
positiveInteger(value, min, max) == Max(min, Min(max, value))

\* String(host || '').replace(/^www\./i, '')
safeHostOf(host) ==
    IF Len(host) >= 4 /\ toLowerCase(SubSeq(host, 1, 4)) = "www."
    THEN SubSeq(host, 5, Len(host))
    ELSE host

\* the cache key of a request; '' for a request marked noCache
CacheKeyOf(req) ==
    IF req.noCache THEN ""
    ELSE "engine=" \o toLowerCase(req.engine)
         \o "|host=" \o safeHostOf(req.host)
         \o "|limit=" \o ToString(positiveInteger(req.limit, 1, 25))
         \o "|query=" \o normalizeWhitespace(req.query)
         \o "|asin=" \o toUpperCase(trim(req.asin))

\* the position of a key in the Map, 0 when absent
CacheIndex(cache, key) ==
    IF \E i \in DOMAIN cache : cache[i].key = key
    THEN CHOOSE i \in DOMAIN cache : cache[i].key = key
    ELSE 0

CacheDelete(cache, i) == SubSeq(cache, 1, i - 1) \o SubSeq(cache, i + 1, Len(cache))

\* a lookup that returns an entry whatever its age
getCachedSerpResponseNoExpiry(cache, cacheKey, t) ==
    LET i == CacheIndex(cache, cacheKey)
    IN IF cacheKey = "" \/ i = 0 THEN [payload |-> NullPayload, cache |-> cache]
       ELSE [payload |-> cache[i].payload, cache |-> cache]

\* getCachedSerpResponse: the payload returned and the Map it leaves
getCachedSerpResponse(cache, cacheKey, t) ==
    LET i == CacheIndex(cache, cacheKey)
    IN IF cacheKey = "" \/ i = 0 THEN [payload |-> NullPayload, cache |-> cache]
       ELSE IF t - cache[i].ts > CacheTtl
            THEN [payload |-> NullPayload, cache |-> CacheDelete(cache, i)]
            ELSE [payload |-> cache[i].payload, cache |-> cache]

\* setCachedSerpResponse: Map.set keeps the position of a key that is present
\* and appends a new one; past the capacity the first key of the Map goes
setCachedSerpResponse(cache, cacheKey, payload, t) ==
    LET i == CacheIndex(cache, cacheKey)
        entry == [key |-> cacheKey, payload |-> payload, ts |-> t]
        stored == IF i # 0 THEN [cache EXCEPT ![i] = entry] ELSE Append(cache, entry)
    IN IF cacheKey = "" \/ payload = NullPayload THEN cache
       ELSE IF Len(stored) > CacheCapacity THEN Tail(stored) ELSE stored

\* the requests made: a search, the same search written differently, two
\* product lookups that differ in the ASIN only, and a search without a query
CacheShapes ==
    { [engine |-> "amazon", host |-> "amazon.com", limit |-> 8, query |-> "usb hub", asin |-> ""],
      [engine |-> "Amazon", host |-> "www.amazon.com", limit |-> 8, query |-> " usb  hub",
       asin |-> ""],
      [engine |-> "amazon_product", host |-> "amazon.com", limit |-> 40, query |-> "",
       asin |-> "B000000001"],
      [engine |-> "amazon_product", host |-> "amazon.com", limit |-> 40, query |-> "",
       asin |-> "b000000002 "],
      [engine |-> "amazon", host |-> "amazon.com", limit |-> 8, query |-> "  ", asin |-> ""] }

CacheRequestOf(s, n) ==
    [engine |-> s.engine, host |-> s.host, limit |-> s.limit, query |-> s.query,
     asin |-> s.asin, noCache |-> n]

\* every shape as a cacheable request, the first search also marked noCache
CacheRequests ==
    {CacheRequestOf(s, FALSE) : s \in CacheShapes}
       \cup {CacheRequestOf(s, TRUE) : s \in {c \in CacheShapes : c.query = "usb hub"}}

\* the cache key of every request, computed once
CacheKeys == [req \in CacheRequests |-> CacheKeyOf(req)]

\* the body the provider sends to a call: every call gets a body of its own,
\* or the JSON text null
ResponseBody(id) == "r" \o ToString(id)

\* the outcomes of the outbound call
FetchOutcomes ==
    { [kind |-> "ok", nullBody |-> FALSE], [kind |-> "ok", nullBody |-> TRUE],
      [kind |-> "unparseable", nullBody |-> FALSE], [kind |-> "non_2xx", nullBody |-> FALSE],
      [kind |-> "network_error", nullBody |-> FALSE], [kind |-> "timeout", nullBody |-> FALSE] }

\* a search engine without a query returns a stub before the cache is read
StubRequests ==
    {req \in CacheRequests :
        toLowerCase(req.engine) # "amazon_product" /\ normalizeWhitespace(req.query) = ""}

ReturnsStub(req) == req \in StubRequests

CacheInit == RankParked /\ NormParked /\ StoreParked /\ TickParked /\ CacheParked

\* querySerpApi up to the outbound call: the stub, the cache hit, or the call
\* issued after a miss
QueryStart ==
    /\ lastRequest.seq < MaxRequests
    /\ Cardinality(inFlight) < MaxInFlight
    /\ \E req \in CacheRequests :
          LET id == lastRequest.seq + 1
              cacheable == ~req.noCache
              cacheKey == CacheKeys[req]
              cached == getCachedSerpResponse(serpResponseCache, cacheKey, now)
              hit == cacheable /\ cached.payload # NullPayload
              outbound == ~ReturnsStub(req) /\ ~hit
          IN /\ lastRequest' = [seq |-> id]
             /\ serpResponseCache' = IF ~ReturnsStub(req) /\ cacheable
                                     THEN cached.cache
                                     ELSE serpResponseCache
             /\ attempts' = IF outbound THEN attempts + 1 ELSE attempts
             /\ inFlight' = IF outbound
                            THEN inFlight \cup {[id |-> id, request |-> req,
                                                 cacheKey |-> cacheKey,
                                                 cacheable |-> cacheable]}
                            ELSE inFlight
             /\ lastResponse' = IF ReturnsStub(req)
                                THEN [seq |-> id, kind |-> "stub", payload |-> StubPayload,
                                      request |-> req]
                                ELSE IF hit
                                THEN [seq |-> id, kind |-> "hit", payload |-> cached.payload,
                                      request |-> req]
                                ELSE lastResponse
    /\ UNCHANGED <<now, completed>>
    /\ UNCHANGED <<varsRank, varsNorm, varsStore, varsTick>>

\* the outbound call of a request settles: the payload is stored and returned,
\* or the error is thrown
QuerySettle ==
    /\ \E call \in inFlight, outcome \in FetchOutcomes :
          LET body == IF outcome.nullBody THEN NullPayload ELSE ResponseBody(call.id)
              payload == querySerpApiPayload(outcome.kind, body, EmptyPayload)
          IN /\ inFlight' = inFlight \ {call}
             /\ IF querySerpApiThrows(outcome.kind)
                THEN /\ lastResponse' = [seq |-> call.id, kind |-> "failed",
                                         payload |-> NullPayload, request |-> call.request]
                     /\ UNCHANGED <<serpResponseCache, completed>>
                ELSE /\ lastResponse' = [seq |-> call.id, kind |-> "fetched",
                                         payload |-> payload, request |-> call.request]
                     /\ serpResponseCache' =
                           IF call.cacheable
                           THEN setCachedSerpResponse(serpResponseCache, call.cacheKey,
                                                      payload, now)
                           ELSE serpResponseCache
                     /\ completed' = {[request |-> call.request, at |-> now,
                                        payload |-> payload]}
    /\ UNCHANGED <<now, attempts, lastRequest>>
    /\ UNCHANGED <<varsRank, varsNorm, varsStore, varsTick>>

\* Date.now() moves on; completions older than the time to live are forgotten
AdvanceClock ==
    /\ now < MaxNow
    /\ now' = now + 1
    /\ completed' = {c \in completed : now' - c.at <= CacheTtl}
    /\ UNCHANGED <<serpResponseCache, inFlight, attempts, lastRequest, lastResponse>>
    /\ UNCHANGED <<varsRank, varsNorm, varsStore, varsTick>>

CacheNext == QueryStart \/ QuerySettle \/ AdvanceClock

SpecCache == CacheInit /\ [][CacheNext]_vars

\* a step in which a request starts, and the outbound call it issues if any
Starts == lastRequest'.seq = lastRequest.seq + 1
Issued == inFlight' \ inFlight
AnsweredAtOnce == Starts /\ Issued = {} /\ lastResponse'.seq = lastRequest'.seq

\* a step in which the outbound call of a request settles
Settled == inFlight \ inFlight'

\* the entries of a key that were stored at most the time to live ago
FreshEntries(cache, key, t) ==
    {i \in DOMAIN cache : cache[i].key = key /\ t - cache[i].ts <= CacheTtl}

\* C16: a cacheable provider request is answered from the cache, with the stored
\* payload and without an outbound call, exactly when the cache holds an entry
\* for its normalised engine, host, limit, query and ASIN that was stored at most
\* the time to live ago; a cacheable request that completes with a 2xx response
\* and a truthy payload stores such an entry (an unparseable body as an empty
\* object); an entry older than the time to live is never returned, and a
\* response that fails is never cached.
C16_ServedFromFreshEntry ==
    [][/\ (AnsweredAtOnce /\ lastResponse'.kind = "hit") =>
             /\ ~lastResponse'.request.noCache
             /\ \E i \in FreshEntries(serpResponseCache, CacheKeys[lastResponse'.request], now) :
                   lastResponse'.payload = serpResponseCache[i].payload
             /\ attempts' = attempts
             /\ serpResponseCache' = serpResponseCache
       /\ \A call \in Issued :
             /\ Starts
             /\ attempts' = attempts + 1
             /\ call.cacheable =>
                   /\ FreshEntries(serpResponseCache, call.cacheKey, now) = {}
                   /\ CacheIndex(serpResponseCache', call.cacheKey) = 0
       /\ \A call \in Settled :
             /\ lastResponse'.kind = "failed" => serpResponseCache' = serpResponseCache
             /\ (/\ lastResponse'.kind = "fetched"
                 /\ call.cacheable
                 /\ lastResponse'.payload # NullPayload) =>
                    \E i \in DOMAIN serpResponseCache' :
                       serpResponseCache'[i] = [key |-> call.cacheKey,
                                                payload |-> lastResponse'.payload,
                                                ts |-> now]]_vars

\* the second request, written differently from the first, is answered from the
\* entry the first one stored, at the very age of the time to live
C16_Witness ==
    /\ lastRequest.seq = 2
    /\ lastResponse.seq = 2
    /\ lastResponse.kind = "hit"
    /\ lastResponse.payload = ResponseBody(1)
    /\ lastResponse.request.host = "www.amazon.com"
    /\ attempts = 1
    /\ now = CacheTtl
    /\ Len(serpResponseCache) = 1
    /\ serpResponseCache[1].ts = 0

\* two requests have the same engine, host, limit and query
SameShape(a, b) ==
    /\ toLowerCase(a.engine) = toLowerCase(b.engine)
    /\ safeHostOf(a.host) = safeHostOf(b.host)
    /\ positiveInteger(a.limit, 1, 25) = positiveInteger(b.limit, 1, 25)
    /\ normalizeWhitespace(a.query) = normalizeWhitespace(b.query)

\* the request that starts in a step
Started(req) ==
    /\ Starts
    /\ \/ \E call \in Issued : call.request = req
       \/ AnsweredAtOnce /\ lastResponse'.request = req

\* C16 as stated, for the most recent successful completion: a cacheable request
\* with the same engine, host, limit and query as a request that completed
\* successfully less than the time to live ago is answered from the cache with
\* the same payload and without an outbound call.
C16_SameShapeServedFromCache ==
    [][\A req \in CacheRequests, c \in completed :
          (/\ Started(req)
           /\ ~req.noCache
           /\ SameShape(req, c.request)
           /\ now - c.at < CacheTtl) =>
              /\ Issued = {}
              /\ attempts' = attempts
              /\ lastResponse'.payload = c.payload]_vars

\* the cache key a request has when it is not marked noCache
ShapeKey(req) == CacheKeyOf([req EXCEPT !.noCache = FALSE])

\* C17: a request marked noCache always issues an outbound call, even when a
\* fresh entry exists, and refreshes the cache: after it succeeds, a following
\* cacheable request of the same shape within the time to live is answered with
\* the payload that the noCache request fetched.
C17_NoCacheRefreshes ==
    [][\A req \in CacheRequests \ StubRequests :
          Started(req) =>
             /\ req.noCache => Issued # {}
             /\ \A c \in completed :
                   (/\ ~req.noCache
                    /\ c.request.noCache
                    /\ ShapeKey(c.request) = CacheKeys[req]
                    /\ c.payload # NullPayload
                    /\ now - c.at <= CacheTtl) =>
                       /\ AnsweredAtOnce
                       /\ lastResponse'.payload = c.payload]_vars

\* the entries that leave the Map in a step in which a call settles
Evicted ==
    {i \in DOMAIN serpResponseCache :
        /\ Settled # {}
        /\ CacheIndex(serpResponseCache', serpResponseCache[i].key) = 0}

CapacityHeld == Len(serpResponseCache) <= CacheCapacity

\* C18: the response cache never holds more than its capacity, whatever the
\* requests and however the calls in flight for one key settle; when an insert
\* takes it past the capacity, the entry evicted is the one with the earliest
\* stored timestamp.
C18_BoundedEvictsOldest ==
    /\ []CapacityHeld
    /\ [][\A i \in Evicted :
             \A j \in DOMAIN serpResponseCache :
                serpResponseCache[i].ts <= serpResponseCache[j].ts]_vars

\* the candidates of a list that carry a vendorId
WithVendor(list) == {list[i] : i \in {k \in DOMAIN list : list[k].vendorId # ""}}

\* the aggregation of a call returns in a step
FetchReturns(c) == calls[c].pc = "fetch" /\ calls'[c].pc # "fetch"

\* a candidate is a row of the store
Persisted(store, productId, o) ==
    \E k \in DOMAIN store :
        /\ store[k].productId = productId
        /\ store[k].vendorId = o.vendorId
        /\ store[k].priceCents = o.priceCents
        /\ store[k].etaDays = o.etaDays

\* C19: the two adapters of an aggregation are pending together and
\* fetchTopOffers returns only when both have settled, whichever settles or
\* fails first; an adapter that failed contributes no candidate, the candidates
\* of an adapter that succeeded are returned, and every returned candidate with
\* a vendorId, a link and a price is persisted when storage answers.
C19_AllSettledAggregation ==
    [][\A c \in Slots :
          LET call == calls[c]
              after == calls'[c]
          IN /\ (call.pc # "fetch" /\ after.pc = "fetch") =>
                    after.amazon = "searching" /\ after.shopping = "waiting"
             /\ FetchReturns(c) =>
                   /\ call.amazon \in SettledStates
                   /\ call.shopping \in SettledStates
                   /\ call.amazon = "rejected" =>
                         \A w \in WithVendor(after.webOffers) : w \in WithVendor(call.shoppingValue)
                   /\ call.shopping = "rejected" =>
                         \A w \in WithVendor(after.webOffers) : w = call.amazonValue
                   /\ (call.amazon = "fulfilled" /\ call.amazonValue # NullOffer
                       /\ call.amazonValue.vendorId # "") =>
                         call.amazonValue \in WithVendor(after.webOffers)
                   /\ call.shopping = "fulfilled" =>
                         \A o \in WithVendor(call.shoppingValue) :
                            \E w \in WithVendor(after.webOffers) : w.vendorId = o.vendorId
                   /\ \A w \in WithVendor(after.webOffers) :
                         \/ call.amazon = "fulfilled" /\ w = call.amazonValue
                         \/ call.shopping = "fulfilled" /\ w \in WithVendor(call.shoppingValue)
             /\ (call.pc = "upsert" /\ storageFaults' = storageFaults) =>
                   LET o == call.webOffers[call.upsertIndex]
                   IN (o.vendorId # "" /\ o.productUrl # "" /\ o.priceCents # 0) =>
                         Persisted(offers', call.productId, o)
             /\ (call.pc = "upsert" /\ after.pc # "upsert") =>
                   call.upsertIndex = Len(call.webOffers) \/ after.pc = "return"]_vars

\* the shopping adapter has failed first and the aggregation is still waiting
\* for the hydration call of the Amazon adapter, which holds a candidate
C19_Witness ==
    \E c \in Slots :
        /\ calls[c].pc = "fetch"
        /\ calls[c].shopping = "rejected"
        /\ calls[c].amazon = "hydrating"
        /\ calls[c].amazonValue # NullOffer
        /\ calls[c].amazonValue.vendorId = "web:amazon"
        /\ calls[c].webOffers = <<>>
        /\ calls[c].outbound = 3

\* C20: one fetchTopOffers call issues at most 3 provider calls over all
\* adapters: one primary search call for each of the two adapters when it
\* starts, and one hydration call more, made by the Amazon adapter only and
\* only once, when its search has found a candidate.
C20_AtMostThreeOutboundCalls ==
    /\ [](\A c \in Slots : calls[c].outbound <= 3)
    /\ [][\A c \in Slots :
             LET call == calls[c]
                 after == calls'[c]
             IN IF call.pc # "fetch" /\ after.pc = "fetch"
                THEN after.outbound = 2
                ELSE IF call.pc = "fetch" /\ call.amazon = "searching"
                        /\ after.amazon = "hydrating"
                THEN after.outbound = 3
                ELSE after.pc # "idle" => after.outbound = call.outbound]_vars

\* an aggregation has returned after both searches and the hydration call
C20_Witness ==
    \E c \in ReturnedCalls :
        /\ calls[c].outbound = 3
        /\ calls[c].amazon = "fulfilled"
        /\ calls[c].shopping = "fulfilled"
        /\ calls[c].providerFailed = {}
        /\ calls[c].outcome = "result"

\* C21: a storage failure at any step of getRankedOffers with refreshLive (the
\* product lookup, a candidate upsert, a fallback insert, the reads) is fatal:
\* the call that met it ends with the error escalated to the caller, never with
\* a result.
C21_StorageFailureEscalates ==
    \A c \in Slots :
        (/\ calls[c].pc = "return"
         /\ calls[c].refreshLive
         /\ calls[c].storageFailed) => calls[c].outcome = "error"

\* the hydration call of a call settles in a step
HydrationSettles(c) ==
    /\ calls[c].pc = "fetch"
    /\ calls[c].amazon = "hydrating"
    /\ calls'[c].amazon # "hydrating"

\* C24: when the Amazon search has yielded a seed candidate and the lookup by
\* ASIN fails (error, timeout, non-2xx), fetchAmazonOffer is fulfilled with the
\* seed candidate, every field unchanged; when the lookup returns, its price,
\* title and delivery estimate replace the seed's wherever it supplies them, and
\* the seed's stay where it does not.
C24_HydrationDegradesToSeed ==
    [][\A c \in Slots :
          HydrationSettles(c) =>
             LET seed == calls[c].amazonValue
                 out == calls'[c].amazonValue
                 lookup == calls'[c].lookup
                 d == lookup.detail
             IN /\ calls'[c].amazon = "fulfilled"
                /\ calls'[c].pc = "fetch"
                /\ lookup.status \in {"failed", "returned"}
                /\ lookup.status = "failed" => out = seed
                /\ lookup.status = "returned" =>
                      /\ out.vendorId = seed.vendorId
                      /\ out.asin = seed.asin
                      /\ out.priceCents = IF d.priceMills > 0
                                          THEN (d.priceMills + 5) \div 10
                                          ELSE seed.priceCents
                      /\ out.title = IF d.title # "" THEN d.title ELSE seed.title
                      /\ out.etaDays = IF d.days >= 0
                                       THEN Max(1, Min(14, d.days))
                                       ELSE seed.etaDays]_vars

\* the lookup has failed and the adapter holds the priced seed it had found
C24_Witness ==
    \E c \in Slots :
        /\ calls[c].pc = "fetch"
        /\ calls[c].lookup.status = "failed"
        /\ calls[c].amazon = "fulfilled"
        /\ "hydration" \in calls[c].providerFailed
        /\ calls[c].amazonValue # NullOffer
        /\ calls[c].amazonValue.priceCents = 2499
        /\ calls[c].amazonValue.title = "Widget listing"

\* C27: the link built for each of the four fallback vendors, for every query,
\* carries a search marker, so normalizeOffer returns the synthetic offer with
\* listingVerified false and listingType ESTIMATED.
C27_FallbackNeverExact ==
    (normDone /\ startsWith(normIn.vendorId, "fallback:")) =>
        /\ HasSearchMarker(normIn.productUrl)
        /\ ~normOut.listingVerified
        /\ normOut.listingType = "ESTIMATED"

\* the Best Buy fallback, whose link runs below the listing path of the
\* vendor, is returned as an estimate
C27_Witness ==
    /\ normDone
    /\ normOut.vendorId = "fallback:bestbuy"
    /\ includes(normOut.productUrl, "bestbuy.com/site/")
    /\ includes(normOut.productUrl, "x%2Fdp%2FB000000001")
    /\ ~normOut.listingVerified
    /\ normOut.listingType = "ESTIMATED"

(***************************************************************************)
(* Specification of the notification queue: price ticks, the extension     *)
(* webhook and the shared-watchlist sync, with the acknowledgement of a    *)
(* notification and the clock that dates it.  A notification's id is its   *)
(* position in the table; deliveredAt null is Absent.                      *)
(***************************************************************************)
PendingTake == 25

\* GET /notifications/pending: the ids of the rows it returns, which come in
\* the order of their creation
PendingNotificationIds(list, userId) ==
    LET ids == {n \in 1..Len(list) :
                   list[n].userId = userId /\ list[n].deliveredAt = Absent}
    IN {n \in ids : Cardinality({m \in ids : m < n}) < PendingTake}

\* an acknowledgement that removes the row
AckNotificationDeleting ==
    /\ \E id \in 1..(Len(notifications) + 1) :
          notifications' = IF id \in DOMAIN notifications
                           THEN SubSeq(notifications, 1, id - 1)
                                    \o SubSeq(notifications, id + 1, Len(notifications))
                           ELSE notifications
    /\ UNCHANGED <<offers, watchlist, calls, ops, storageFaults, liveEnabled>>
    /\ UNCHANGED <<varsRank, varsNorm, varsTick, varsCache>>

\* POST /notifications/:id/ack: the update of an id that is not in the table
\* throws and is answered 500
AckNotification ==
    /\ \E id \in 1..(Len(notifications) + 1) :
          notifications' = IF id \in DOMAIN notifications
                           THEN [notifications EXCEPT ![id].deliveredAt = now]
                           ELSE notifications
    /\ UNCHANGED <<offers, watchlist, calls, ops, storageFaults, liveEnabled>>
    /\ UNCHANGED <<varsRank, varsNorm, varsTick, varsCache>>

NotifyWatchlists ==
    {w \in TickWatchlists : w[1].preferredOfferId = NoId /\ ~w[1].shippingImprovementOn}

NotifyInit ==
    /\ RankParked
    /\ NormParked
    /\ CacheParked
    /\ TickParked
    /\ offers = << OfferRow(1, "p1", "web:amazon",
                            OfferData(8500, 0, 5, "https://www.amazon.com/dp/B000000001")),
                   OfferRow(2, "p1", "web:ebay",
                            OfferData(9000, 0, 3, "https://www.ebay.com/itm/123")) >>
    /\ watchlist \in NotifyWatchlists
    /\ notifications = <<>>
    /\ calls = [c \in Slots |-> IdleCall]
    /\ ops = 0
    /\ storageFaults = 0
    /\ liveEnabled = FALSE

NotifyNext ==
    \/ SimulatePriceTick
    \/ ExtensionWebhook
    \/ SharedWatchlistSync
    \/ AckNotification
    \/ AdvanceClock

SpecNotify == NotifyInit /\ [][NotifyNext]_vars

\* the ids of the notifications a step creates
CreatedNow == (Len(notifications) + 1)..Len(notifications')

\* C23: notifications are created only by runPriceTick and by the extension
\* webhook, with deliveredAt null; afterwards a row changes only by an
\* acknowledgement that sets deliveredAt, so no row is deleted, deliveredAt
\* never returns to null, and an acknowledged row is not in the pending listing.
C23_NotificationLifecycle ==
    [][/\ Len(notifications') >= Len(notifications)
       /\ CreatedNow # {} => (SimulatePriceTick \/ ExtensionWebhook)
       /\ \A n \in CreatedNow :
             /\ notifications'[n].deliveredAt = Absent
             /\ notifications'[n].type \in {"DEAL_ALERT", "EXTENSION_PRICE_DROP"}
       /\ \A n \in 1..Len(notifications) :
             LET before == notifications[n]
                 after == notifications'[n]
             IN /\ after # before =>
                      /\ AckNotification
                      /\ after = [before EXCEPT !.deliveredAt = now]
                      /\ after.deliveredAt # Absent
                /\ before.deliveredAt # Absent =>
                      /\ after.deliveredAt # Absent
                      /\ n \notin PendingNotificationIds(notifications', after.userId)]_vars

\* an alert of a tick acknowledged at an earlier time and a webhook notification
\* still pending, which alone is listed
C23_Witness ==
    /\ Len(notifications) = 2
    /\ notifications[1].type = "DEAL_ALERT"
    /\ notifications[1].deliveredAt # Absent
    /\ notifications[1].deliveredAt < now
    /\ notifications[2].type = "EXTENSION_PRICE_DROP"
    /\ PendingNotificationIds(notifications, UserId) = {2}

\* the watchlist item a step creates, in a sequence of at most one
CreatedWatchItems ==
    IF Len(watchlist') = Len(watchlist) + 1 THEN << watchlist'[Len(watchlist')] >> ELSE <<>>

\* C28: a watchlist item that POST /watchlist creates without a preferred offer
\* takes its baseline price and delivery time from the product's best offer, the
\* in-stock offer of lowest total and then lowest etaDays that the price tick
\* compares against, so that a tick without a price change finds a drop of 0.
\* Stated for a product that has an offer in stock.
C28_BaselineIsBestOffer ==
    [][\A c \in Slots :
          (/\ calls[c].caller = "POST /watchlist"
           /\ calls[c].pc = "return"
           /\ calls'[c].pc = "idle"
           /\ CreatedWatchItems # <<>>
           /\ CreatedWatchItems[1].preferredOfferId = NoId
           /\ OffersInStock(offers', calls[c].productId) # <<>>) =>
              LET item == CreatedWatchItems[1]
                  best == getBestOfferForProduct(offers', item.productId)
              IN /\ item.lastSeenBestPriceCents = best.priceCents
                 /\ item.lastSeenBestEtaDays = best.etaDays]_vars

(***************************************************************************)
(* Specification of the shared-watchlist sync on its own: a store in which *)
(* a second user watches a product too, and lists of several items.        *)
(***************************************************************************)
OtherUserId == "u2"

UserItem(userId, productId) ==
    [WatchItem(productId, SharedAlertRules) EXCEPT !.userId = userId]

\* the watchlists before the first sync: the second user's item, and any of
\* the two products for the first user
SyncWatchlists ==
    { << UserItem(OtherUserId, "p1") >>,
      << UserItem(UserId, "p1"), UserItem(OtherUserId, "p1") >>,
      << UserItem(OtherUserId, "p1"), UserItem(UserId, "p2") >>,
      << UserItem(UserId, "p2"), UserItem(OtherUserId, "p1"), UserItem(UserId, "p1") >> }

\* no item; the lists of SharedItemLists; an item given twice; a listing and an
\* item that resolves to its product by the listing's URL only; an item
\* without a title among two that resolve; an item of a product not yet known
SyncItemLists ==
    SharedItemLists
    \cup { <<>>,
           << SharedItem("Widget  Pro ", "Acme", "https://www.ebay.com/itm/123", "", 15000),
              SharedItem("Widget Pro", "Acme", "", "", Absent) >>,
           << SharedItem("Q&A Set", "", "https://shop.example.com/p/7", "", 1990),
              SharedItem("", "", "https://shop.example.com/p/7", "", Absent) >>,
           << SharedItem("Widget Pro", "Acme", "", "", Absent),
              SharedItem("", "Acme", "", "", 15000),
              SharedItem("Q&A Set", "", "", "WWW.Shop.Example.com", Absent) >>,
           << SharedItem("Desk Lamp", "Lumo", "https://lumo.example.com/lamp", "", 25000) >> }

SyncInit ==
    /\ RankParked
    /\ NormParked
    /\ CacheParked
    /\ TickParked
    /\ offers \in { <<>>,
                    << OfferRow(1, "p2", "web:ebay",
                                OfferData(9000, 0, 3, "https://www.ebay.com/itm/123")) >> }
    /\ watchlist \in SyncWatchlists
    /\ notifications = <<>>
    /\ calls = [c \in Slots |-> IdleCall]
    /\ ops = 0
    /\ storageFaults = 0
    /\ liveEnabled = FALSE

\* POST /integrations/shared-watchlist/sync, one request after the other
SyncRequest ==
    /\ ops < MaxOps
    /\ ops' = ops + 1
    /\ \E items \in SyncItemLists, replace \in BOOLEAN :
          applySharedWatchlistSync(items, replace)
    /\ UNCHANGED <<changedItems, ticks>>
    /\ UNCHANGED <<notifications, calls, storageFaults, liveEnabled>>
    /\ UNCHANGED <<varsRank, varsNorm, varsCache>>

SyncNext == SyncRequest

SpecSync == SyncInit /\ [][SyncNext]_vars

\* the products a user watches
WatchedBy(list, userId) ==
    {list[i].productId : i \in {j \in 1..Len(list) : list[j].userId = userId}}

\* the store when item k of a sync is reached
StoreAtItem(items, k) ==
    SyncItems(SubSeq(items, 1, k - 1), offers, watchlist, {}, 0, 0).offers

\* the products the items of a sync resolve to
ResolvedProducts(items) ==
    {ensureProductFromSharedItem(items[k], StoreAtItem(items, k)) : k \in 1..Len(items)}
        \ {""}

\* C30: a sync with replace leaves the user watching exactly the products its
\* items resolve to, none when no item resolves; a sync without replace removes
\* no item; either way the user has at most one item per product, the items of
\* other users are as before, and importedCount + skippedCount is the number of
\* items given.
C30_SyncReplaceAndCounts ==
    [][ops' = ops + 1 =>
          LET items == syncResponse'.items
              mine == WatchedBy(watchlist, UserId)
              mineAfter == WatchedBy(watchlist', UserId)
          IN /\ syncResponse'.replace => mineAfter = ResolvedProducts(items)
             /\ ~syncResponse'.replace =>
                   /\ mineAfter = mine \cup ResolvedProducts(items)
                   /\ Len(watchlist') >= Len(watchlist)
             /\ \A i, j \in 1..Len(watchlist') :
                   (/\ watchlist'[i].userId = watchlist'[j].userId
                    /\ watchlist'[i].productId = watchlist'[j].productId) => i = j
             /\ SelectSeq(watchlist', LAMBDA w : w.userId # UserId)
                    = SelectSeq(watchlist, LAMBDA w : w.userId # UserId)
             /\ syncResponse'.importedCount + syncResponse'.skippedCount = Len(items)
             /\ syncResponse'.importedCount >= Cardinality(ResolvedProducts(items))]_vars

\* a sync with replace of three items, one of them without a title, that
\* removed the user's items and left the other user's item in place
C30_Witness ==
    /\ syncResponse.replace
    /\ Len(syncResponse.items) = 3
    /\ syncResponse.importedCount = 2
    /\ syncResponse.skippedCount = 1
    /\ WatchedBy(watchlist, UserId) = {"p1", "p2"}
    /\ WatchedBy(watchlist, OtherUserId) = {"p1"}
    /\ Len(watchlist) = 3

\* a sync with replace in which no item resolves, after a sync that created a
\* product: the user watches nothing
C30_WitnessNoneResolves ==
    /\ syncResponse.replace
    /\ syncResponse.skippedCount = 1
    /\ syncResponse.removedCount = 3
    /\ WatchedBy(watchlist, UserId) = {}
    /\ \E i \in 1..Len(offers) : offers[i].productId = NewProduct
    /\ WatchedBy(watchlist, OtherUserId) = {"p1"}

(***************************************************************************)
(* The best-offer reductions of the watchlist read path and of the push to *)
(* the remote watchlist, next to getBestOfferForProduct and the ranking.   *)
(***************************************************************************)
\* prisma.offer.findMany({ where: { productId: { in: productIds }, inStock: true } })
OffersInStockOf(store, productIds) ==
    SelectSeq(store, LAMBDA o : o.productId \in productIds /\ o.inStock)

\* a loop that lets the later of two offers equal in total and etaDays win
RECURSIVE BestByProductIdLastWins(_, _)
BestByProductIdLastWins(rows, best) ==
    IF rows = <<>> THEN best
    ELSE LET normalized == normalizeOffer(Head(rows))
             existing == best[normalized.productId]
         IN BestByProductIdLastWins(
                Tail(rows),
                IF existing = NullOffer \/ Total(normalized) <= Total(existing)
                THEN [best EXCEPT ![normalized.productId] = normalized]
                ELSE best)

\* the bestByProductId loop of buildWatchlistItemsResponse: a Map from productId
\* to the best normalized offer so far, absent keys as NullOffer
RECURSIVE BestByProductId(_, _)
BestByProductId(rows, best) ==
    IF rows = <<>> THEN best
    ELSE LET normalized == normalizeOffer(Head(rows))
             existing == best[normalized.productId]
         IN BestByProductId(
                Tail(rows),
                IF existing = NullOffer
                THEN [best EXCEPT ![normalized.productId] = normalized]
                ELSE LET existingTotal == existing.priceCents + existing.shippingCents
                         nextTotal == normalized.priceCents + normalized.shippingCents
                     IN IF \/ nextTotal < existingTotal
                           \/ (nextTotal = existingTotal
                               /\ normalized.etaDays < existing.etaDays)
                        THEN [best EXCEPT ![normalized.productId] = normalized]
                        ELSE best)

\* bestOfferRaw of buildWatchlistItemsResponse for an item without a pinned
\* offer, vendor or URL
WatchlistBestOffer(store, productIds, productId) ==
    BestByProductId(OffersInStockOf(store, productIds),
                    [p \in productIds |-> NullOffer])[productId]

\* productOffers.reduce(...) of syncRemoteWatchlistFromLocal
RECURSIVE RemoteBestReduce(_, _)
RemoteBestReduce(best, rest) ==
    IF rest = <<>> THEN best
    ELSE LET next == Head(rest)
         IN RemoteBestReduce(
                IF best = NullOffer THEN next
                ELSE LET bt == best.priceCents + best.shippingCents
                         nt == next.priceCents + next.shippingCents
                     IN IF nt < bt THEN next
                        ELSE IF nt = bt /\ next.etaDays < best.etaDays THEN next
                        ELSE best,
                Tail(rest))

\* bestOffer of syncRemoteWatchlistFromLocal for an item without a preferred URL
RemoteSyncBestOffer(store, productIds, productId) ==
    LET productOffers == SelectSeq(OffersInStockOf(store, productIds),
                                   LAMBDA o : o.productId = productId)
    IN IF Len(productOffers) > 0 THEN RemoteBestReduce(NullOffer, productOffers)
       ELSE NullOffer

\* the offers handed to the ranking as rows of the first product, in the same
\* order and under the same ids, behind a cheaper row of the second product
RankStore ==
    << OfferRow(MaxLen + 1, "p2", "web:ebay",
                OfferData(50, 0, 1, "https://www.ebay.com/itm/123")) >>
    \o [i \in 1..Len(SelectSeq(rankIn, LAMBDA o : o # NullOffer)) |->
           LET o == SelectSeq(rankIn, LAMBDA r : r # NullOffer)[i]
           IN OfferRow(o.id, "p1", "web:shop" \o ToString(o.id),
                       [OfferData(o.priceCents, o.shippingCents, o.etaDays,
                                  "https://shop.example.com/p/" \o ToString(o.id))
                            EXCEPT !.inStock = o.inStock])]

OfferIdOf(o) == IF o = NullOffer THEN NoId ELSE o.id

\* C25: on the in-stock offers of a product in one storage order, for an item
\* without a pinned preference, the watchlist read path, the push to the remote
\* watchlist and the price tick select the same offer, and it is the offer that
\* the ranking recommends under BEST_PRICE; among offers equal in total and
\* etaDays that is the earliest.  Stated where the ranking has been applied
\* to the same offers under BEST_PRICE.
C25_BestOfferReductionsAgree ==
    LET watched == {"p1", "p2"}
        tick == getBestOfferForProduct(RankStore, "p1")
        read == WatchlistBestOffer(RankStore, watched, "p1")
        push == RemoteSyncBestOffer(RankStore, watched, "p1")
        found == OffersInStock(RankStore, "p1")
        recommended ==
            recommendedOfferIdForStrategy([i \in DOMAIN found |-> normalizeOffer(found[i])],
                                          "BEST_PRICE")
    IN (rankDone /\ rankStrategy = "BEST_PRICE") =>
          /\ push = tick
          /\ read = (IF tick = NullOffer THEN NullOffer ELSE normalizeOffer(tick))
          /\ OfferIdOf(tick) = recommended
          /\ rankOut = recommended
          /\ \A i \in 1..Len(found) :
                (Total(found[i]) = Total(tick) /\ found[i].etaDays = tick.etaDays)
                    => tick.id <= found[i].id

\* three offers in stock that tie on total and etaDays, of which every path takes
\* the first
C25_Witness ==
    /\ rankDone
    /\ rankStrategy = "BEST_PRICE"
    /\ Len(rankIn) = 3
    /\ \A i \in 1..3 : /\ rankIn[i] # NullOffer
                       /\ rankIn[i].inStock
                       /\ Total(rankIn[i]) = 200
                       /\ rankIn[i].etaDays = 2
    /\ rankIn[2].priceCents # rankIn[1].priceCents
    /\ rankOut = 1
    /\ WatchlistBestOffer(RankStore, {"p1", "p2"}, "p1").id = 1
    /\ RemoteSyncBestOffer(RankStore, {"p1", "p2"}, "p1").id = 1
    /\ getBestOfferForProduct(RankStore, "p1").id = 1

\* C29: an item that has fired does not fire again in a tick in which the best
\* offer of its product has the price and the delivery time it had when the item
\* fired, whatever the item's threshold, target price and shipping rule.
C29_NoRepeatedAlert ==
    [][\A i \in 1..Len(watchlist) :
          (/\ watchlist[i].lastNotifiedAt # 0
           /\ Evaluated(i) # NullOffer
           /\ Evaluated(i).priceCents = watchlist[i].lastSeenBestPriceCents
           /\ Evaluated(i).etaDays = watchlist[i].lastSeenBestEtaDays) => ~Fires(i)]_vars

(***************************************************************************)
(* Specification of interleaved operations: two requests that reach        *)
(* getRankedOffers for one product and two invocations of runPriceTick,    *)
(* each advancing one await at a time.  Live search is off and no storage  *)
(* call fails for want of the store, so an aggregation reads the existing  *)
(* offers and inserts fallback rows.  An offer's id is its position in the *)
(* table and a watchlist item's id its position in the watchlist.          *)
(***************************************************************************)
RaceSlots == {1, 2}

RaceStore ==
    << OfferRow(1, "p1", "web:amazon",
                OfferData(8600, 0, 5, "https://www.amazon.com/dp/B000000001")) >>

\* an item with the drop rule only, threshold 15, last seen at 10000
RaceWatchlist ==
    << [WatchItem("p1", SharedAlertRules) EXCEPT !.lastSeenBestPriceCents = 10000,
                                                !.lastSeenBestEtaDays = 5] >>

RaceDraws == { << [drift |-> -2, etaShift |-> 0] >>, << [drift |-> 1, etaShift |-> -1] >> }

RaceInit ==
    /\ RankParked
    /\ NormParked
    /\ CacheParked
    /\ TickParked
    /\ offers = RaceStore
    /\ watchlist = RaceWatchlist
    /\ notifications = <<>>
    /\ calls = [c \in RaceSlots |-> IdleCall]
    /\ ops = 0
    /\ storageFaults = MaxStorageFaults
    /\ liveEnabled = FALSE

\* GET /offers for the first product reaches getRankedOffers while other
\* operations may be running
RaceStart(c) ==
    /\ calls[c].pc = "idle"
    /\ ops < MaxOps
    /\ ops' = ops + 1
    /\ LET req == OfferRequest("p1", "BEST_PRICE")
       IN calls' = [calls EXCEPT ![c] =
                       [IdleCall EXCEPT !.pc = "lookup",
                                        !.caller = req.caller,
                                        !.productId = req.productId,
                                        !.strategy = req.strategy,
                                        !.refreshLive = req.refreshLive,
                                        !.watch = req.watch]]
    /\ UNCHANGED <<offers, watchlist, notifications, storageFaults, liveEnabled>>
    /\ UNCHANGED <<varsRank, varsNorm, varsTick, varsCache>>

TickRunning(t) == ticks[t].pc \notin {"idle", "done"}

\* runPriceTick is called: prisma.offer.findMany()
TickStart(t) ==
    /\ ticks[t].pc = "idle"
    /\ ops < MaxOps
    /\ ops' = ops + 1
    /\ \E source \in RaceDraws :
          ticks' = [u \in TickSlots |->
                       IF u = t
                       THEN [IdleTick EXCEPT
                                !.pc = IF offers = <<>> THEN "watchread" ELSE "offers",
                                !.source = source,
                                !.read = offers,
                                !.k = 1,
                                !.overlapped = \E v \in TickSlots \ {t} : TickRunning(v)]
                       ELSE IF TickRunning(u) THEN [ticks[u] EXCEPT !.overlapped = TRUE]
                       ELSE ticks[u]]
    /\ UNCHANGED <<offers, watchlist, notifications, calls, storageFaults, liveEnabled>>
    /\ UNCHANGED <<changedItems, syncResponse>>
    /\ UNCHANGED <<varsRank, varsNorm, varsCache>>

\* one turn of the update loop: prisma.offer.update by id with the price and the
\* delivery time computed from the offer as it was read
TickUpdateOffer(t) ==
    LET tick == ticks[t]
        offer == tick.read[tick.k]
        draw == DrawAt(tick.source, tick.k)
        newPrice == clamp(RoundMult(offer.priceCents, 100 + draw.drift),
                          TickMinPrice, TickMaxPrice)
        newEta == clamp(offer.etaDays + draw.etaShift, TickMinEta, TickMaxEta)
    IN /\ tick.pc = "offers"
       /\ offers' = [offers EXCEPT ![offer.id] =
                        [@ EXCEPT !.priceCents = newPrice, !.etaDays = newEta]]
       /\ ticks' = [ticks EXCEPT ![t] =
                       [tick EXCEPT
                           !.k = @ + 1,
                           !.pc = IF tick.k = Len(tick.read) THEN "watchread" ELSE "offers",
                           !.changedItems =
                               Append(@, [offerId |-> offer.id, productId |-> offer.productId,
                                          oldPriceCents |-> offer.priceCents,
                                          newPriceCents |-> newPrice,
                                          oldEtaDays |-> offer.etaDays,
                                          newEtaDays |-> newEta])]]
       /\ UNCHANGED <<watchlist, notifications, calls, ops, storageFaults, liveEnabled>>
       /\ UNCHANGED <<changedItems, syncResponse>>
       /\ UNCHANGED <<varsRank, varsNorm, varsCache>>

\* prisma.watchlist.findMany({ include: { product: true } })
TickReadWatch(t) ==
    /\ ticks[t].pc = "watchread"
    /\ ticks' = [ticks EXCEPT ![t] =
                    [@ EXCEPT !.items = watchlist,
                              !.j = 1,
                              !.pc = IF watchlist = <<>> THEN "done" ELSE "watch"]]
    /\ UNCHANGED <<offers, watchlist, notifications, calls, ops, storageFaults, liveEnabled>>
    /\ UNCHANGED <<changedItems, syncResponse>>
    /\ UNCHANGED <<varsRank, varsNorm, varsCache>>

\* an update on a fire that leaves the baseline as it was
FiredItemKeepingBaseline(row, bestOffer) == [row EXCEPT !.lastNotifiedAt = 1]

\* prisma.watchlist.update on a fire: the three fields of data
FiredItem(row, bestOffer) ==
    [row EXCEPT !.lastNotifiedAt = 1,
                !.lastSeenBestPriceCents = bestOffer.priceCents,
                !.lastSeenBestEtaDays = bestOffer.etaDays]

\* one turn of the loop over the watchItems that were read: the best offer is
\* read now, the baseline is the one of the item as it was read
TickWatchItem(t) ==
    LET tick == ticks[t]
        item == tick.items[tick.j]
        bestOffer == getBestOfferForProduct(offers, item.productId)
        fires == bestOffer # NullOffer /\ shouldNotify(item, bestOffer)
        baseline == IF item.lastSeenBestPriceCents # 0 THEN item.lastSeenBestPriceCents
                    ELSE bestOffer.priceCents
    IN /\ tick.pc = "watch"
       /\ notifications' =
              IF fires
              THEN Append(notifications,
                          Notification(item.productId, "DEAL_ALERT", bestOffer.priceCents,
                                       bestOffer.etaDays, bestOffer.id))
              ELSE notifications
       /\ watchlist' = IF fires
                       THEN [watchlist EXCEPT ![tick.j] = FiredItem(@, bestOffer)]
                       ELSE watchlist
       /\ ticks' = [ticks EXCEPT ![t] =
                       [tick EXCEPT
                           !.j = @ + 1,
                           !.pc = IF tick.j = Len(tick.items) THEN "done" ELSE "watch",
                           !.notified =
                               IF fires
                               THEN Append(@, [watchlistId |-> tick.j,
                                               priceCents |-> bestOffer.priceCents,
                                               baseline |-> baseline])
                               ELSE @]]
       /\ UNCHANGED <<offers, calls, ops, storageFaults, liveEnabled>>
       /\ UNCHANGED <<changedItems, syncResponse>>
       /\ UNCHANGED <<varsRank, varsNorm, varsCache>>

RaceNext ==
    \/ \E c \in RaceSlots : RaceStart(c)
    \/ \E c \in RaceSlots : RefreshLookup(c)
    \/ \E c \in RaceSlots : RefreshExisting(c)
    \/ \E c \in RaceSlots : RefreshFallback(c)
    \/ \E c \in RaceSlots : GetRankedOffersRead(c)
    \/ \E c \in RaceSlots : Respond(c)
    \/ \E t \in TickSlots : TickStart(t)
    \/ \E t \in TickSlots : TickUpdateOffer(t)
    \/ \E t \in TickSlots : TickReadWatch(t)
    \/ \E t \in TickSlots : TickWatchItem(t)

SpecRace == RaceInit /\ [][RaceNext]_vars

\* the entries of an invocation's notifications array for a watchlist item
NotifiedFor(t, id) ==
    {n \in 1..Len(ticks[t].notified) : ticks[t].notified[n].watchlistId = id}

\* C26: one invocation of runPriceTick queues at most one notification for a
\* watchlist item, and two invocations that fire the same item against the same
\* last-seen baseline have overlapped, so invocations that run one after the
\* other do not alert one crossing twice; overlapping invocations can, which
\* C26_Witness reaches.
C26_OverlappingTicksFireTwice ==
    /\ \A t \in TickSlots : \A id \in 1..Len(watchlist) :
          Cardinality(NotifiedFor(t, id)) <= 1
    /\ \A t, u \in TickSlots : \A id \in 1..Len(watchlist) :
          (/\ t # u
           /\ \E a \in NotifiedFor(t, id), b \in NotifiedFor(u, id) :
                 ticks[t].notified[a].baseline = ticks[u].notified[b].baseline)
              => (ticks[t].overlapped /\ ticks[u].overlapped)

\* two invocations that overlapped, both of which read the item with the
\* baseline 10000 and fired it: two alerts are queued for the one crossing
C26_Witness ==
    /\ \A t \in TickSlots :
          /\ ticks[t].pc = "done"
          /\ ticks[t].overlapped
          /\ Len(ticks[t].notified) = 1
          /\ ticks[t].notified[1].watchlistId = 1
          /\ ticks[t].notified[1].baseline = 10000
    /\ Len(notifications) = 2
    /\ \A n \in 1..2 : /\ notifications[n].type = "DEAL_ALERT"
                       /\ notifications[n].productId = "p1"

\* the fallback loop of an aggregation that runs alone, from the fallback at i
RECURSIVE FallbacksAlone(_, _, _, _, _)
FallbacksAlone(store, productId, basePrice, ids, i) ==
    IF i = 0 THEN store
    ELSE LET fb == Fallbacks[i]
             seen == ids \cup {fb.vendorId}
             grown == OfferCreate(store, productId, fb.vendorId,
                                  OfferData(FallbackPrice(basePrice, fb), 0, fb.etaDays,
                                            FallbackUrl(fb, ProductQuery(productId))))
         IN IF Cardinality(seen) >= 3 THEN grown
            ELSE FallbacksAlone(grown, productId, basePrice, seen,
                                NextFallbackIndex(i + 1, seen))

\* the store after an aggregation without live search that runs alone
AggregationAlone(store, productId) ==
    LET existing == OffersInStock(store, productId)
        ids == {existing[i].vendorId : i \in 1..Len(existing)}
        minPrice == MinPriceKey(existing)
        basePrice == IF minPrice < NoPriceKey THEN minPrice ELSE DefaultBasePrice
    IN IF Len(existing) >= 3 THEN store
       ELSE FallbacksAlone(store, productId, basePrice, ids, NextFallbackIndex(1, ids))

\* the rows of a store without their ids
RowsOf(store) == {[store[i] EXCEPT !.id = NoId] : i \in 1..Len(store)}

DoneTicks == {t \in TickSlots : ticks[t].pc = "done"}

\* two operations were started and both have finished
RaceQuiescent ==
    /\ ops = 2
    /\ \A c \in RaceSlots : calls[c].pc = "idle"
    /\ \A t \in TickSlots : ~TickRunning(t)

\* the rows that two aggregations, or an aggregation and a price tick, leave
\* when one runs after the other, in either order
SerialRows ==
    IF DoneTicks = {}
    THEN {RowsOf(AggregationAlone(AggregationAlone(RaceStore, "p1"), "p1"))}
    ELSE LET source == ticks[CHOOSE t \in DoneTicks : TRUE].source
         IN {RowsOf(AggregationAlone(TickOffers(RaceStore, source), "p1")),
             RowsOf(TickOffers(AggregationAlone(RaceStore, "p1"), source))}

\* the fallback loop of call c has ended on an insert that was rejected: the
\* vendor it had reached is not among those it has written or found
FallbackWriteFailed(c) ==
    /\ calls[c].pc \in {"read", "return"}
    /\ ~calls[c].storageFailed
    /\ calls[c].fbIndex # 0
    /\ Fallbacks[calls[c].fbIndex].vendorId \notin calls[c].existingVendorIds

\* C22: when two aggregations of a product, or an aggregation and a price tick,
\* interleave, no write of theirs fails, and when both have finished every offer
\* row is as one of the two serial orders of the operations leaves it.
C22_InterleavingIsSerial ==
    /\ \A c \in RaceSlots : ~FallbackWriteFailed(c)
    /\ (RaceQuiescent /\ Cardinality(DoneTicks) <= 1) => RowsOf(offers) \in SerialRows
====
